---- MODULE Spec2Model ----
(***************************************************************************)
(* Model of the SameSite cookie issue classifier of                        *)
(* front_end/models/issues_manager/SameSiteCookieIssue.ts.                 *)
(*                                                                         *)
(* The classifier is a set of static functions without fields of their     *)
(* own, so the state of the model is one invocation: which function is     *)
(* called, the arguments it is given, whether it has returned (pc) and     *)
(* the value it returned.  console holds the messages written with         *)
(* console.warn.                                                           *)
(*                                                                         *)
(* JavaScript strings that the code only compares or concatenates (reason  *)
(* and operation enum values, issue codes) are TLA+ strings.  Strings the  *)
(* code looks into (cookieUrl.startsWith) are sequences of one-character   *)
(* strings.                                                                *)
(***************************************************************************)
EXTENDS Integers, Sequences, FiniteSets, TLC

VARIABLES pc, callee, args, result, console

\* the invocation of a function of the classifier
classifierVars == <<pc, callee, args, result, console>>

\* the widgets modelled besides the classifier, each null until it has been
\* constructed: a lane of the Web Vitals timeline, the swatch popover icons
\* of one tree element with the popover helper and the styles pane they
\* share, and the NodeConnectionsView with its list widget; their fields are
\* described where they are constructed
VARIABLES lanes, popovers, view

vars == <<classifierVars, lanes, popovers, view>>

----------------------------------------------------------------------------
(* Bounds of the model. *)

\* longest cookieExclusionReasons array of a report
MaxExclusions == 2
\* longest cookieWarningReasons array of a report or of a resolver call
MaxWarnings == 2
\* longest reason array in the details of a protocol notification
MaxNotificationReasons == 1
\* longest event array given to WebVitalsEventLane.setEvents
MaxEvents == 2
\* number of setEvents calls on one lane
MaxMarkerArrays == 2
\* longest box array given to WebVitalsTimeboxLane.setTimeboxes
MaxTimeboxes == 2
\* number of rule objects a NodeConnectionsView holds at a time
MaxRules == 3

----------------------------------------------------------------------------
(* JavaScript values. *)

\* null, as returned by codeForSameSiteDetails (string|null)
NULL == "null"

\* an absent optional value (cookieUrl?: string, an array a report lacks);
\* "undefined" is neither a character nor a reason, so no string or array of
\* the model equals it
UNDEFINED == <<"undefined">>

\* null and undefined where the other values of the type are objects
\* (topFrame: ResourceTreeFrame|null, a ParsedURL|null, an absent details
\* payload); objects are records, and no record of the model has these fields
NullObject == [null |-> TRUE]
UndefinedObject == [undefined |-> TRUE]

\* `if (x)` on a string|null|undefined value held as a TLA+ string
TruthyCode(x) == x # NULL /\ x # ""

\* String.prototype.startsWith on character sequences
startsWith(s, prefix) ==
  /\ Len(s) >= Len(prefix)
  /\ SubSeq(s, 1, Len(prefix)) = prefix

\* String.prototype.endsWith on character sequences
endsWith(s, suffix) ==
  /\ Len(s) >= Len(suffix)
  /\ SubSeq(s, Len(s) - Len(suffix) + 1, Len(s)) = suffix

\* String.prototype.substr(start, length) on character sequences
substr(s, start, length) == SubSeq(s, start + 1, start + length)

\* Array.prototype.includes
includes(array, x) == \E i \in DOMAIN array : array[i] = x

\* Array.prototype.join
RECURSIVE join(_, _)
join(parts, sep) ==
  IF Len(parts) = 0 THEN ""
  ELSE IF Len(parts) = 1 THEN parts[1]
  ELSE parts[1] \o sep \o join(Tail(parts), sep)

----------------------------------------------------------------------------
(* Protocol.Audits enums, with the values the issue codes are built from. *)

InspectorIssueCode_SameSiteCookieIssue == "SameSiteCookieIssue"

ExcludeSameSiteUnspecifiedTreatedAsLax == "ExcludeSameSiteUnspecifiedTreatedAsLax"
ExcludeSameSiteNoneInsecure == "ExcludeSameSiteNoneInsecure"
ExcludeSameSiteLax == "ExcludeSameSiteLax"
ExcludeSameSiteStrict == "ExcludeSameSiteStrict"
ExcludeInvalidSameParty == "ExcludeInvalidSameParty"

WarnSameSiteUnspecifiedCrossSiteContext == "WarnSameSiteUnspecifiedCrossSiteContext"
WarnSameSiteNoneInsecure == "WarnSameSiteNoneInsecure"
WarnSameSiteUnspecifiedLaxAllowUnsafe == "WarnSameSiteUnspecifiedLaxAllowUnsafe"
WarnSameSiteStrictLaxDowngradeStrict == "WarnSameSiteStrictLaxDowngradeStrict"
WarnSameSiteStrictCrossDowngradeStrict == "WarnSameSiteStrictCrossDowngradeStrict"
WarnSameSiteStrictCrossDowngradeLax == "WarnSameSiteStrictCrossDowngradeLax"
WarnSameSiteLaxCrossDowngradeStrict == "WarnSameSiteLaxCrossDowngradeStrict"
WarnSameSiteLaxCrossDowngradeLax == "WarnSameSiteLaxCrossDowngradeLax"

SameSiteCookieExclusionReason ==
  { ExcludeSameSiteUnspecifiedTreatedAsLax, ExcludeSameSiteNoneInsecure,
    ExcludeSameSiteLax, ExcludeSameSiteStrict, ExcludeInvalidSameParty }

SameSiteCookieWarningReason ==
  { WarnSameSiteUnspecifiedCrossSiteContext, WarnSameSiteNoneInsecure,
    WarnSameSiteUnspecifiedLaxAllowUnsafe, WarnSameSiteStrictLaxDowngradeStrict,
    WarnSameSiteStrictCrossDowngradeStrict, WarnSameSiteStrictCrossDowngradeLax,
    WarnSameSiteLaxCrossDowngradeStrict, WarnSameSiteLaxCrossDowngradeLax }

SameSiteCookieOperation == { "ReadCookie", "SetCookie" }

----------------------------------------------------------------------------
(* codeForSameSiteDetails *)

\* variant: only the https scheme is recognised
isURLSecure_httpsOnly(cookieUrl) ==
  /\ cookieUrl # UNDEFINED
  /\ cookieUrl # <<>>
  /\ startsWith(cookieUrl, <<"h", "t", "t", "p", "s", ":", "/", "/">>)

\* const isURLSecure = cookieUrl && (startsWith('https://') || startsWith('wss://'))
\* taken as a condition: undefined and '' are falsy
isURLSecure(cookieUrl) ==
  /\ cookieUrl # UNDEFINED
  /\ cookieUrl # <<>>
  /\ \/ startsWith(cookieUrl, <<"h", "t", "t", "p", "s", ":", "/", "/">>)
     \/ startsWith(cookieUrl, <<"w", "s", "s", ":", "/", "/">>)

\* const secure = isURLSecure ? 'Secure' : 'Insecure'
secure(cookieUrl) == IF isURLSecure(cookieUrl) THEN "Secure" ELSE "Insecure"

\* warningReasons && warningReasons.length > 0
hasWarningReasons(warningReasons) ==
  /\ warningReasons # UNDEFINED
  /\ Len(warningReasons) > 0

\* the condition of the first inner `if` of the exclusion branch
includesNavigationDowngrade(warningReasons) ==
  includes(warningReasons, WarnSameSiteStrictLaxDowngradeStrict)

\* variant: WarnSameSiteLaxCrossDowngradeLax is left out of the test
includesCrossDowngrade_withoutLaxLax(warningReasons) ==
  \/ includes(warningReasons, WarnSameSiteStrictCrossDowngradeStrict)
  \/ includes(warningReasons, WarnSameSiteStrictCrossDowngradeLax)
  \/ includes(warningReasons, WarnSameSiteLaxCrossDowngradeStrict)

\* the condition of the second inner `if` of the exclusion branch
includesCrossDowngrade(warningReasons) ==
  \/ includes(warningReasons, WarnSameSiteStrictCrossDowngradeStrict)
  \/ includes(warningReasons, WarnSameSiteStrictCrossDowngradeLax)
  \/ includes(warningReasons, WarnSameSiteLaxCrossDowngradeStrict)
  \/ includes(warningReasons, WarnSameSiteLaxCrossDowngradeLax)

\* variant: ExcludeSameSiteNoneInsecure is taken into the exclusion branch
isSameSiteExclusion_withNoneInsecure(reason) ==
  \/ reason = ExcludeSameSiteStrict
  \/ reason = ExcludeSameSiteLax
  \/ reason = ExcludeSameSiteUnspecifiedTreatedAsLax
  \/ reason = ExcludeSameSiteNoneInsecure

\* the condition of the outer `if`: the three SameSite exclusion reasons
isSameSiteExclusion(reason) ==
  \/ reason = ExcludeSameSiteStrict
  \/ reason = ExcludeSameSiteLax
  \/ reason = ExcludeSameSiteUnspecifiedTreatedAsLax

\* variant: WarnSameSiteLaxCrossDowngradeStrict is left out of the test
isCrossDowngradeWarning_withoutLaxStrict(reason) ==
  \/ reason = WarnSameSiteStrictCrossDowngradeStrict
  \/ reason = WarnSameSiteStrictCrossDowngradeLax
  \/ reason = WarnSameSiteLaxCrossDowngradeLax

\* the condition of the cross-downgrade `if` on the reason itself
isCrossDowngradeWarning(reason) ==
  \/ reason = WarnSameSiteStrictCrossDowngradeStrict
  \/ reason = WarnSameSiteStrictCrossDowngradeLax
  \/ reason = WarnSameSiteLaxCrossDowngradeLax
  \/ reason = WarnSameSiteLaxCrossDowngradeStrict

\* variant: every uncorroborated SameSite exclusion gets the generic code
uncorroboratedExclusionCode_alwaysCode(reason, operation) ==
  join(<<InspectorIssueCode_SameSiteCookieIssue, reason, operation>>, "::")

\* variant: the ExcludeSameSiteUnspecifiedTreatedAsLax case is missing
uncorroboratedExclusionCode_alwaysNull(reason, operation) == NULL

\* the value returned when a SameSite exclusion has no downgrade warning
uncorroboratedExclusionCode(reason, operation) ==
  IF reason = ExcludeSameSiteUnspecifiedTreatedAsLax
  THEN join(<<InspectorIssueCode_SameSiteCookieIssue, reason, operation>>, "::")
  ELSE NULL

\* variant: the cross-downgrade test comes before the navigation-downgrade test
sameSiteExclusionCode_crossFirst(reason, warningReasons, operation, cookieUrl) ==
  IF hasWarningReasons(warningReasons) /\ includesCrossDowngrade(warningReasons)
  THEN join(<<InspectorIssueCode_SameSiteCookieIssue,
              "ExcludeContextDowngrade", operation, secure(cookieUrl)>>, "::")
  ELSE IF hasWarningReasons(warningReasons) /\ includesNavigationDowngrade(warningReasons)
  THEN join(<<InspectorIssueCode_SameSiteCookieIssue,
              "ExcludeNavigationContextDowngrade", secure(cookieUrl)>>, "::")
  ELSE uncorroboratedExclusionCode(reason, operation)

\* the body of the outer `if`
sameSiteExclusionCode(reason, warningReasons, operation, cookieUrl) ==
  IF hasWarningReasons(warningReasons) /\ includesNavigationDowngrade(warningReasons)
  THEN join(<<InspectorIssueCode_SameSiteCookieIssue,
              "ExcludeNavigationContextDowngrade", secure(cookieUrl)>>, "::")
  ELSE IF hasWarningReasons(warningReasons) /\ includesCrossDowngrade(warningReasons)
  THEN join(<<InspectorIssueCode_SameSiteCookieIssue,
              "ExcludeContextDowngrade", operation, secure(cookieUrl)>>, "::")
  ELSE uncorroboratedExclusionCode(reason, operation)

\* variant: the navigation-downgrade warning code carries the operation too
otherReasonCode_withOperation(reason, operation, cookieUrl) ==
  IF reason = WarnSameSiteStrictLaxDowngradeStrict
  THEN join(<<InspectorIssueCode_SameSiteCookieIssue, reason, operation,
              secure(cookieUrl)>>, "::")
  ELSE IF isCrossDowngradeWarning(reason)
  THEN join(<<InspectorIssueCode_SameSiteCookieIssue,
              "WarnCrossDowngrade", operation, secure(cookieUrl)>>, "::")
  ELSE join(<<InspectorIssueCode_SameSiteCookieIssue, reason, operation>>, "::")

\* variant: the generic code carries the secure component as well
otherReasonCode_genericWithSecure(reason, operation, cookieUrl) ==
  IF reason = WarnSameSiteStrictLaxDowngradeStrict
  THEN join(<<InspectorIssueCode_SameSiteCookieIssue, reason, secure(cookieUrl)>>, "::")
  ELSE IF isCrossDowngradeWarning(reason)
  THEN join(<<InspectorIssueCode_SameSiteCookieIssue,
              "WarnCrossDowngrade", operation, secure(cookieUrl)>>, "::")
  ELSE join(<<InspectorIssueCode_SameSiteCookieIssue, reason, operation,
              secure(cookieUrl)>>, "::")

\* the code of a reason that is not one of the three SameSite exclusions
otherReasonCode(reason, operation, cookieUrl) ==
  IF reason = WarnSameSiteStrictLaxDowngradeStrict
  THEN join(<<InspectorIssueCode_SameSiteCookieIssue, reason, secure(cookieUrl)>>, "::")
  ELSE IF isCrossDowngradeWarning(reason)
  THEN join(<<InspectorIssueCode_SameSiteCookieIssue,
              "WarnCrossDowngrade", operation, secure(cookieUrl)>>, "::")
  ELSE join(<<InspectorIssueCode_SameSiteCookieIssue, reason, operation>>, "::")

codeForSameSiteDetails(reason, warningReasons, operation, cookieUrl) ==
  IF isSameSiteExclusion(reason)
  THEN sameSiteExclusionCode(reason, warningReasons, operation, cookieUrl)
  ELSE otherReasonCode(reason, operation, cookieUrl)

----------------------------------------------------------------------------
(* createIssuesFromSameSiteDetails *)

\* new SameSiteCookieIssue(code, sameSiteDetails, issuesModel)
SameSiteCookieIssue(code, issueDetails) ==
  [code |-> code, issueDetails |-> issueDetails]

\* variant: an issue is put in front of the array instead of pushed
RECURSIVE pushIssues_unshift(_, _, _, _, _)
pushIssues_unshift(reasons, i, warningReasons, sameSiteDetails, issues) ==
  IF i > Len(reasons) THEN issues
  ELSE LET code == codeForSameSiteDetails(reasons[i], warningReasons,
                     sameSiteDetails.operation, sameSiteDetails.cookieUrl)
       IN pushIssues_unshift(reasons, i + 1, warningReasons, sameSiteDetails,
                     IF TruthyCode(code)
                     THEN <<SameSiteCookieIssue(code, sameSiteDetails)>> \o issues
                     ELSE issues)

\* one `for (const reason of reasons)` loop of the factory, from element i on
RECURSIVE pushIssues(_, _, _, _, _)
pushIssues(reasons, i, warningReasons, sameSiteDetails, issues) ==
  IF i > Len(reasons) THEN issues
  ELSE LET code == codeForSameSiteDetails(reasons[i], warningReasons,
                     sameSiteDetails.operation, sameSiteDetails.cookieUrl)
       IN pushIssues(reasons, i + 1, warningReasons, sameSiteDetails,
                     IF TruthyCode(code)
                     THEN Append(issues, SameSiteCookieIssue(code, sameSiteDetails))
                     ELSE issues)

\* cookieExclusionReasons && cookieExclusionReasons.length > 0
hasExclusionReasons(sameSiteDetails) ==
  /\ sameSiteDetails.cookieExclusionReasons # UNDEFINED
  /\ Len(sameSiteDetails.cookieExclusionReasons) > 0

\* variant: the warning loop starts at the second element
issuesFromWarningReasons_skipFirst(sameSiteDetails, issues) ==
  IF sameSiteDetails.cookieWarningReasons # UNDEFINED
  THEN pushIssues(sameSiteDetails.cookieWarningReasons, 2, <<>>, sameSiteDetails, issues)
  ELSE issues

\* the second half of the factory: one issue per warning reason
issuesFromWarningReasons(sameSiteDetails, issues) ==
  IF sameSiteDetails.cookieWarningReasons # UNDEFINED
  THEN pushIssues(sameSiteDetails.cookieWarningReasons, 1, <<>>, sameSiteDetails, issues)
  ELSE issues

\* variant: no return after the exclusion loop
createIssuesFromSameSiteDetails_noEarlyReturn(sameSiteDetails) ==
  IF hasExclusionReasons(sameSiteDetails)
  THEN issuesFromWarningReasons(sameSiteDetails,
         pushIssues(sameSiteDetails.cookieExclusionReasons, 1,
                    sameSiteDetails.cookieWarningReasons, sameSiteDetails, <<>>))
  ELSE issuesFromWarningReasons(sameSiteDetails, <<>>)

\* variant: the return after the exclusion loop is taken only with issues
createIssuesFromSameSiteDetails_returnIfAny(sameSiteDetails) ==
  LET issues == IF hasExclusionReasons(sameSiteDetails)
                THEN pushIssues(sameSiteDetails.cookieExclusionReasons, 1,
                       sameSiteDetails.cookieWarningReasons, sameSiteDetails, <<>>)
                ELSE <<>>
  IN IF Len(issues) > 0 THEN issues
     ELSE issuesFromWarningReasons(sameSiteDetails, <<>>)

createIssuesFromSameSiteDetails(sameSiteDetails) ==
  IF hasExclusionReasons(sameSiteDetails)
  THEN pushIssues(sameSiteDetails.cookieExclusionReasons, 1,
                  sameSiteDetails.cookieWarningReasons, sameSiteDetails, <<>>)
  ELSE issuesFromWarningReasons(sameSiteDetails, <<>>)

----------------------------------------------------------------------------
(* getDescription and getKind *)

\* the entries of issueDescriptions for the SameSite reasons:
\* issue code -> file of the description
sameSiteDescriptions ==
  ("SameSiteCookieIssue::ExcludeSameSiteUnspecifiedTreatedAsLax::ReadCookie"
     :> "SameSiteUnspecifiedTreatedAsLaxRead.md") @@
  ("SameSiteCookieIssue::ExcludeSameSiteUnspecifiedTreatedAsLax::SetCookie"
     :> "SameSiteUnspecifiedTreatedAsLaxSet.md") @@
  ("SameSiteCookieIssue::WarnSameSiteUnspecifiedLaxAllowUnsafe::ReadCookie"
     :> "SameSiteUnspecifiedLaxAllowUnsafeRead.md") @@
  ("SameSiteCookieIssue::WarnSameSiteUnspecifiedLaxAllowUnsafe::SetCookie"
     :> "SameSiteUnspecifiedLaxAllowUnsafeSet.md") @@
  ("SameSiteCookieIssue::WarnSameSiteUnspecifiedCrossSiteContext::ReadCookie"
     :> "SameSiteUnspecifiedLaxAllowUnsafeRead.md") @@
  ("SameSiteCookieIssue::WarnSameSiteUnspecifiedCrossSiteContext::SetCookie"
     :> "SameSiteUnspecifiedLaxAllowUnsafeSet.md") @@
  ("SameSiteCookieIssue::ExcludeSameSiteNoneInsecure::ReadCookie"
     :> "SameSiteNoneInsecureErrorRead.md") @@
  ("SameSiteCookieIssue::ExcludeSameSiteNoneInsecure::SetCookie"
     :> "SameSiteNoneInsecureErrorSet.md") @@
  ("SameSiteCookieIssue::WarnSameSiteNoneInsecure::ReadCookie"
     :> "SameSiteNoneInsecureWarnRead.md") @@
  ("SameSiteCookieIssue::WarnSameSiteNoneInsecure::SetCookie"
     :> "SameSiteNoneInsecureWarnSet.md") @@
  ("SameSiteCookieIssue::WarnSameSiteStrictLaxDowngradeStrict::Secure"
     :> "SameSiteWarnStrictLaxDowngradeStrict.md") @@
  ("SameSiteCookieIssue::WarnSameSiteStrictLaxDowngradeStrict::Insecure"
     :> "SameSiteWarnStrictLaxDowngradeStrict.md") @@
  ("SameSiteCookieIssue::WarnCrossDowngrade::ReadCookie::Secure"
     :> "SameSiteWarnCrossDowngradeRead.md") @@
  ("SameSiteCookieIssue::WarnCrossDowngrade::ReadCookie::Insecure"
     :> "SameSiteWarnCrossDowngradeRead.md") @@
  ("SameSiteCookieIssue::WarnCrossDowngrade::SetCookie::Secure"
     :> "SameSiteWarnCrossDowngradeSet.md") @@
  ("SameSiteCookieIssue::WarnCrossDowngrade::SetCookie::Insecure"
     :> "SameSiteWarnCrossDowngradeSet.md") @@
  ("SameSiteCookieIssue::ExcludeNavigationContextDowngrade::Secure"
     :> "SameSiteExcludeNavigationContextDowngrade.md") @@
  ("SameSiteCookieIssue::ExcludeNavigationContextDowngrade::Insecure"
     :> "SameSiteExcludeNavigationContextDowngrade.md") @@
  ("SameSiteCookieIssue::ExcludeContextDowngrade::ReadCookie::Secure"
     :> "SameSiteExcludeContextDowngradeRead.md") @@
  ("SameSiteCookieIssue::ExcludeContextDowngrade::ReadCookie::Insecure"
     :> "SameSiteExcludeContextDowngradeRead.md") @@
  ("SameSiteCookieIssue::ExcludeContextDowngrade::SetCookie::Secure"
     :> "SameSiteExcludeContextDowngradeSet.md") @@
  ("SameSiteCookieIssue::ExcludeContextDowngrade::SetCookie::Insecure"
     :> "SameSiteExcludeContextDowngradeSet.md")

\* variant: the SameParty entry is missing
issueDescriptions_withoutSameParty == sameSiteDescriptions

\* the issueDescriptions map, with its last entry for SameParty
issueDescriptions ==
  sameSiteDescriptions @@
  ("SameSiteCookieIssue::ExcludeInvalidSameParty::SetCookie"
     :> "SameSiteInvalidSameParty.md")

\* SameSiteCookieIssue.getDescription, for an issue with the given code
getDescription(code) ==
  IF code \in DOMAIN issueDescriptions THEN issueDescriptions[code] ELSE NULL

\* variant: the kind is taken from the warning reasons
getKind_fromWarnings(issue) ==
  IF /\ issue.issueDetails.cookieWarningReasons # UNDEFINED
     /\ Len(issue.issueDetails.cookieWarningReasons) > 0
  THEN "BreakingChange"
  ELSE "PageError"

\* SameSiteCookieIssue.getKind: cookieExclusionReasons?.length > 0
getKind(issue) ==
  IF /\ issue.issueDetails.cookieExclusionReasons # UNDEFINED
     /\ Len(issue.issueDetails.cookieExclusionReasons) > 0
  THEN "PageError"
  ELSE "BreakingChange"

----------------------------------------------------------------------------
(* primaryKey *)

\* SameSiteCookieIssue.cookieId: `${domain};${path};${name}`, or the raw
\* cookie line, or 'no-cookie-info'
cookieId(issue) ==
  IF issue.issueDetails.cookie # UndefinedObject
  THEN issue.issueDetails.cookie.domain \o <<";">>
         \o issue.issueDetails.cookie.path \o <<";">>
         \o issue.issueDetails.cookie.name
  ELSE IF issue.issueDetails.rawCookieLine # UNDEFINED
  THEN issue.issueDetails.rawCookieLine
  ELSE <<"n", "o", "-", "c", "o", "o", "k", "i", "e", "-", "i", "n", "f", "o">>

\* const requestId = request ? request.requestId : 'no-request'
requestIdOf(issue) ==
  IF issue.issueDetails.request # UndefinedObject
  THEN issue.issueDetails.request.requestId
  ELSE <<"n", "o", "-", "r", "e", "q", "u", "e", "s", "t">>

\* variant: the code is left out of the key
primaryKey_withoutCode(issue) ==
  <<"-", "(">> \o cookieId(issue) \o <<")", "-", "(">> \o requestIdOf(issue) \o <<")">>

\* SameSiteCookieIssue.primaryKey: `${code}-(${cookieId})-(${requestId})`,
\* as a string of characters that begins with the code (a code holds no '-')
primaryKey(issue) ==
  <<issue.code>> \o <<"-", "(">> \o cookieId(issue)
    \o <<")", "-", "(">> \o requestIdOf(issue) \o <<")">>

----------------------------------------------------------------------------
(* fromInspectorIssue *)

\* the message of the console.warn call
WarnWithoutDetails == "SameSite issue without details received."

\* variant: details without exclusion reasons are skipped like absent details
fromInspectorIssue_skipsWarningsOnly(inspectorIssue) ==
  LET sameSiteDetails == inspectorIssue.details.sameSiteCookieIssueDetails
  IN IF sameSiteDetails = UndefinedObject THEN <<>>
     ELSE IF ~hasExclusionReasons(sameSiteDetails) THEN <<>>
     ELSE createIssuesFromSameSiteDetails(sameSiteDetails)

\* the value returned by fromInspectorIssue
fromInspectorIssue(inspectorIssue) ==
  LET sameSiteDetails == inspectorIssue.details.sameSiteCookieIssueDetails
  IN IF sameSiteDetails = UndefinedObject THEN <<>>
     ELSE createIssuesFromSameSiteDetails(sameSiteDetails)

\* the console after fromInspectorIssue
fromInspectorIssueConsole(inspectorIssue, log) ==
  IF inspectorIssue.details.sameSiteCookieIssueDetails = UndefinedObject
  THEN Append(log, WarnWithoutDetails)
  ELSE log

----------------------------------------------------------------------------
(* isCausedByThirdParty and isSubdomainOf *)

\* Common.ParsedURL.ParsedURL.fromString: null when the string is not of the
\* form scheme://host..., otherwise the parsed URL; the host ends at the
\* first '/' after the scheme separator
fromString(url) ==
  LET sep == <<":", "/", "/">>
      starts == { i \in 1..Len(url) : startsWith(SubSeq(url, i, Len(url)), sep) }
  IN IF starts = {} \/ 1 \in starts THEN NullObject
     ELSE LET i == CHOOSE k \in starts : \A m \in starts : k <= m
              rest == SubSeq(url, i + 3, Len(url))
              slashes == { k \in 1..Len(rest) : rest[k] = "/" }
              hostEnd == IF slashes = {} THEN Len(rest)
                         ELSE (CHOOSE k \in slashes : \A m \in slashes : k <= m) - 1
          IN [scheme |-> SubSeq(url, 1, i - 1), host |-> SubSeq(rest, 1, hostEnd)]

\* ParsedURL.domain()
domain(parsedUrl) == parsedUrl.host

\* variant: the separating dot is not required
isSubdomainOf_noDot(subdomain, superdomain) ==
  IF Len(subdomain) <= Len(superdomain) THEN subdomain = superdomain
  ELSE endsWith(subdomain, superdomain)

isSubdomainOf(subdomain, superdomain) ==
  IF Len(subdomain) <= Len(superdomain) THEN subdomain = superdomain
  ELSE IF ~endsWith(subdomain, superdomain) THEN FALSE
  ELSE LET subdomainWithoutSuperdomian ==
             substr(subdomain, 0, Len(subdomain) - Len(superdomain))
       IN endsWith(subdomainWithoutSuperdomian, <<".">>)

\* variant: the cookieUrl test comes before the top frame test
isCausedByThirdParty_urlTestFirst(topFrame, cookieUrl) ==
  IF cookieUrl = UNDEFINED \/ cookieUrl = <<>> THEN FALSE
  ELSE IF topFrame = NullObject THEN TRUE
  ELSE IF topFrame.domainAndRegistry = <<>> THEN FALSE
  ELSE LET parsedCookieUrl == fromString(cookieUrl)
       IN IF parsedCookieUrl = NullObject THEN FALSE
          ELSE ~isSubdomainOf(domain(parsedCookieUrl), topFrame.domainAndRegistry)

\* variant: the empty domainAndRegistry is not tested
isCausedByThirdParty_noEmptyDomainTest(topFrame, cookieUrl) ==
  IF topFrame = NullObject THEN TRUE
  ELSE IF cookieUrl = UNDEFINED \/ cookieUrl = <<>> THEN FALSE
  ELSE LET parsedCookieUrl == fromString(cookieUrl)
       IN IF parsedCookieUrl = NullObject THEN FALSE
          ELSE ~isSubdomainOf(domain(parsedCookieUrl), topFrame.domainAndRegistry)

\* variant: an unparseable cookieUrl counts as third-party
isCausedByThirdParty_unparseableIsThirdParty(topFrame, cookieUrl) ==
  IF topFrame = NullObject THEN TRUE
  ELSE IF cookieUrl = UNDEFINED \/ cookieUrl = <<>> \/ topFrame.domainAndRegistry = <<>>
  THEN FALSE
  ELSE LET parsedCookieUrl == fromString(cookieUrl)
       IN IF parsedCookieUrl = NullObject THEN TRUE
          ELSE ~isSubdomainOf(domain(parsedCookieUrl), topFrame.domainAndRegistry)

\* variant: the arguments of isSubdomainOf are exchanged
isCausedByThirdParty_exchanged(topFrame, cookieUrl) ==
  IF topFrame = NullObject THEN TRUE
  ELSE IF cookieUrl = UNDEFINED \/ cookieUrl = <<>> \/ topFrame.domainAndRegistry = <<>>
  THEN FALSE
  ELSE LET parsedCookieUrl == fromString(cookieUrl)
       IN IF parsedCookieUrl = NullObject THEN FALSE
          ELSE ~isSubdomainOf(topFrame.domainAndRegistry, domain(parsedCookieUrl))

\* the exported function isCausedByThirdParty(topFrame, cookieUrl)
isCausedByThirdParty(topFrame, cookieUrl) ==
  IF topFrame = NullObject THEN TRUE
  ELSE IF cookieUrl = UNDEFINED \/ cookieUrl = <<>> \/ topFrame.domainAndRegistry = <<>>
  THEN FALSE
  ELSE LET parsedCookieUrl == fromString(cookieUrl)
       IN IF parsedCookieUrl = NullObject THEN FALSE
          ELSE ~isSubdomainOf(domain(parsedCookieUrl), topFrame.domainAndRegistry)

----------------------------------------------------------------------------
(* Inputs. *)

\* arrays of at most n elements of S
ArraysUpTo(S, n) == UNION { [1..k -> S] : k \in 0..n }

\* cookie URLs: absent, empty, the two secure schemes, their insecure
\* counterparts, another scheme, another letter case, and truncated prefixes
CookieUrls ==
  { UNDEFINED,
    <<>>,
    <<"h", "t", "t", "p", "s", ":", "/", "/", "a">>,
    <<"w", "s", "s", ":", "/", "/", "a">>,
    <<"h", "t", "t", "p", ":", "/", "/", "a">>,
    <<"w", "s", ":", "/", "/", "a">>,
    <<"f", "t", "p", ":", "/", "/", "a">>,
    <<"H", "T", "T", "P", "S", ":", "/", "/", "a">>,
    <<"h", "t", "t", "p", "s", ":", "/">>,
    <<"h", "t", "t", "p", "s", ":", "/", "/">> }

WarningReasonArrays ==
  ArraysUpTo(SameSiteCookieWarningReason, MaxWarnings) \cup {UNDEFINED}

ExclusionReasonArrays ==
  ArraysUpTo(SameSiteCookieExclusionReason, MaxExclusions) \cup {UNDEFINED}

\* the cookie URLs of the reports given to the factory: absent, secure and
\* insecure; the factory hands the URL to codeForSameSiteDetails unread
ReportCookieUrls ==
  { UNDEFINED,
    <<"h", "t", "t", "p", "s", ":", "/", "/", "a">>,
    <<"h", "t", "t", "p", ":", "/", "/", "a">> }

\* Protocol.Audits.SameSiteCookieIssueDetails
SameSiteCookieIssueDetails ==
  [ cookieExclusionReasons : ExclusionReasonArrays,
    cookieWarningReasons : WarningReasonArrays,
    operation : SameSiteCookieOperation,
    cookieUrl : ReportCookieUrls ]

\* the details a protocol notification carries
NotificationDetails ==
  [ cookieExclusionReasons :
      ArraysUpTo(SameSiteCookieExclusionReason, MaxNotificationReasons) \cup {UNDEFINED},
    cookieWarningReasons :
      ArraysUpTo(SameSiteCookieWarningReason, MaxNotificationReasons) \cup {UNDEFINED},
    operation : SameSiteCookieOperation,
    cookieUrl : CookieUrls ]

\* Protocol.Audits.InspectorIssue, with or without the SameSite details
InspectorIssues ==
  [ code : {InspectorIssueCode_SameSiteCookieIssue},
    details : [ sameSiteCookieIssueDetails :
                  NotificationDetails \cup {UndefinedObject} ] ]

\* host names and registrable domains: '', com, b.com, a.b.com, evilb.com,
\* x.com, .b.com
Domains ==
  { <<>>,
    <<"c", "o", "m">>,
    <<"b", ".", "c", "o", "m">>,
    <<"a", ".", "b", ".", "c", "o", "m">>,
    <<"e", "v", "i", "l", "b", ".", "c", "o", "m">>,
    <<"x", ".", "c", "o", "m">>,
    <<".", "b", ".", "c", "o", "m">> }

\* the URL https://{host}/p
UrlOfHost(host) ==
  <<"h", "t", "t", "p", "s", ":", "/", "/">> \o host \o <<"/", "p">>

\* strings that are not URLs: b.com, ://b.com, a b
UnparseableUrls ==
  { <<"b", ".", "c", "o", "m">>,
    <<":", "/", "/", "b", ".", "c", "o", "m">>,
    <<"a", " ", "b">> }

\* the cookieUrl values given to isCausedByThirdParty
ThirdPartyCookieUrls ==
  {UNDEFINED, <<>>} \cup { UrlOfHost(h) : h \in Domains } \cup UnparseableUrls

\* SDK.ResourceTreeModel.ResourceTreeFrame|null, by its domainAndRegistry()
TopFrames == {NullObject} \cup [ domainAndRegistry : Domains ]

----------------------------------------------------------------------------
(* The state machine. *)

\* a pending call of codeForSameSiteDetails with its arguments
CodeForSameSiteDetailsCalls ==
  [ reason : SameSiteCookieExclusionReason \cup SameSiteCookieWarningReason,
    warningReasons : WarningReasonArrays,
    operation : SameSiteCookieOperation,
    cookieUrl : CookieUrls ]

\* a pending call of createIssuesFromSameSiteDetails with its argument
CreateIssuesFromSameSiteDetailsCalls ==
  [ sameSiteDetails : SameSiteCookieIssueDetails ]

\* values of a cookie's domain, path and name, and of a raw cookie line
CookieFields == { <<"a">>, <<"a", ";", "a">> }

RawCookieLines == { UNDEFINED, <<"a">>, <<"a", ";", "a", ";", "a">> }

\* Protocol.Audits.AffectedCookie, or none
AffectedCookies ==
  {UndefinedObject} \cup [ domain : CookieFields, path : CookieFields, name : CookieFields ]

\* Protocol.Audits.AffectedRequest, or none
AffectedRequests ==
  {UndefinedObject} \cup [ requestId : { <<"1">>, <<"2">> } ]

\* the part of SameSiteCookieIssueDetails that primaryKey reads
KeyDetails ==
  [ cookie : AffectedCookies, rawCookieLine : RawCookieLines, request : AffectedRequests ]

\* issues whose primary keys are compared
KeyedIssues ==
  [ code : { "SameSiteCookieIssue::WarnSameSiteNoneInsecure::SetCookie",
             "SameSiteCookieIssue::ExcludeSameSiteNoneInsecure::SetCookie" },
    issueDetails : KeyDetails ]

\* pending computation of the primary keys of two issues
PrimaryKeyCalls == [ issues : KeyedIssues \X KeyedIssues ]

\* pending calls of fromInspectorIssue, isCausedByThirdParty, isSubdomainOf
FromInspectorIssueCalls == [ inspectorIssue : InspectorIssues ]

IsCausedByThirdPartyCalls == [ topFrame : TopFrames, cookieUrl : ThirdPartyCookieUrls ]

IsSubdomainOfCalls == [ subdomain : Domains, superdomain : Domains ]

\* a caller has invoked one of the functions; nothing has run yet
Init ==
  /\ pc = "call"
  /\ console = <<>>
  /\ \/ /\ callee = "fromInspectorIssue"
        /\ args \in FromInspectorIssueCalls
     \/ /\ callee = "primaryKey"
        /\ args \in PrimaryKeyCalls
     \/ /\ callee = "isCausedByThirdParty"
        /\ args \in IsCausedByThirdPartyCalls
     \/ /\ callee = "isSubdomainOf"
        /\ args \in IsSubdomainOfCalls
     \/ /\ callee = "codeForSameSiteDetails"
        /\ args \in CodeForSameSiteDetailsCalls
     \/ /\ callee = "createIssuesFromSameSiteDetails"
        /\ args \in CreateIssuesFromSameSiteDetailsCalls
  /\ result = <<>>
  /\ lanes = NullObject
  /\ popovers = NullObject
  /\ view = NullObject

\* SameSiteCookieIssue.codeForSameSiteDetails runs and returns
CodeForSameSiteDetails ==
  /\ pc = "call"
  /\ callee = "codeForSameSiteDetails"
  /\ result' = codeForSameSiteDetails(args.reason, args.warningReasons,
                                      args.operation, args.cookieUrl)
  /\ pc' = "return"
  /\ UNCHANGED <<callee, args, console, lanes, popovers, view>>

\* SameSiteCookieIssue.createIssuesFromSameSiteDetails runs and returns
CreateIssuesFromSameSiteDetails ==
  /\ pc = "call"
  /\ callee = "createIssuesFromSameSiteDetails"
  /\ result' = createIssuesFromSameSiteDetails(args.sameSiteDetails)
  /\ pc' = "return"
  /\ UNCHANGED <<callee, args, console, lanes, popovers, view>>

\* SameSiteCookieIssue.fromInspectorIssue runs and returns
FromInspectorIssue ==
  /\ pc = "call"
  /\ callee = "fromInspectorIssue"
  /\ result' = fromInspectorIssue(args.inspectorIssue)
  /\ console' = fromInspectorIssueConsole(args.inspectorIssue, console)
  /\ pc' = "return"
  /\ UNCHANGED <<callee, args, lanes, popovers, view>>

\* isCausedByThirdParty runs and returns
IsCausedByThirdParty ==
  /\ pc = "call"
  /\ callee = "isCausedByThirdParty"
  /\ result' = isCausedByThirdParty(args.topFrame, args.cookieUrl)
  /\ pc' = "return"
  /\ UNCHANGED <<callee, args, console, lanes, popovers, view>>

\* isSubdomainOf runs and returns
IsSubdomainOf ==
  /\ pc = "call"
  /\ callee = "isSubdomainOf"
  /\ result' = isSubdomainOf(args.subdomain, args.superdomain)
  /\ pc' = "return"
  /\ UNCHANGED <<callee, args, console, lanes, popovers, view>>

\* primaryKey runs on each of two issues and returns
PrimaryKey ==
  /\ pc = "call"
  /\ callee = "primaryKey"
  /\ result' = <<primaryKey(args.issues[1]), primaryKey(args.issues[2])>>
  /\ pc' = "return"
  /\ UNCHANGED <<callee, args, console, lanes, popovers, view>>

Next ==
  \/ PrimaryKey
  \/ CodeForSameSiteDetails
  \/ CreateIssuesFromSameSiteDetails
  \/ FromInspectorIssue
  \/ IsCausedByThirdParty
  \/ IsSubdomainOf

Spec == Init /\ [][Next]_vars

----------------------------------------------------------------------------
(* Vocabulary of the properties. *)

codeForReturned == pc = "return" /\ callee = "codeForSameSiteDetails"

createIssuesReturned == pc = "return" /\ callee = "createIssuesFromSameSiteDetails"

\* the elements of an optional array, as a set
ElementsOf(array) ==
  IF array = UNDEFINED THEN {} ELSE { array[i] : i \in DOMAIN array }

StrictOrLax == { ExcludeSameSiteStrict, ExcludeSameSiteLax }

SameSiteExclusions == StrictOrLax \cup { ExcludeSameSiteUnspecifiedTreatedAsLax }

CrossDowngradeWarnings ==
  { WarnSameSiteStrictCrossDowngradeStrict, WarnSameSiteStrictCrossDowngradeLax,
    WarnSameSiteLaxCrossDowngradeStrict, WarnSameSiteLaxCrossDowngradeLax }

DowngradeWarnings == CrossDowngradeWarnings \cup { WarnSameSiteStrictLaxDowngradeStrict }

\* the URL is present and begins, character by character, with the scheme
BeginsWith(url, scheme) ==
  /\ url # UNDEFINED
  /\ Len(url) >= Len(scheme)
  /\ \A i \in 1..Len(scheme) : url[i] = scheme[i]

HasSecureScheme(url) ==
  \/ BeginsWith(url, <<"h", "t", "t", "p", "s", ":", "/", "/">>)
  \/ BeginsWith(url, <<"w", "s", "s", ":", "/", "/">>)

SecureLabel(url) == IF HasSecureScheme(url) THEN "Secure" ELSE "Insecure"

\* the codes of the Warn... families: what a warning reason resolves to
WarnFamilyCodes ==
  { "SameSiteCookieIssue::" \o w \o "::" \o op :
      w \in SameSiteCookieWarningReason \ DowngradeWarnings,
      op \in SameSiteCookieOperation }
  \cup { "SameSiteCookieIssue::WarnSameSiteStrictLaxDowngradeStrict::" \o sec :
           sec \in {"Secure", "Insecure"} }
  \cup { "SameSiteCookieIssue::WarnCrossDowngrade::" \o op \o "::" \o sec :
           op \in SameSiteCookieOperation, sec \in {"Secure", "Insecure"} }

\* the codes that end in a Secure component, and those that end in Insecure
CodesEndingIn(sec) ==
  { "SameSiteCookieIssue::ExcludeNavigationContextDowngrade::" \o sec,
    "SameSiteCookieIssue::WarnSameSiteStrictLaxDowngradeStrict::" \o sec }
  \cup { "SameSiteCookieIssue::" \o family \o "::" \o op \o "::" \o sec :
           family \in {"ExcludeContextDowngrade", "WarnCrossDowngrade"},
           op \in SameSiteCookieOperation }

----------------------------------------------------------------------------
(* Properties of createIssuesFromSameSiteDetails. *)

\* C1: when cookieExclusionReasons is non-empty, every returned issue has a
\* code that codeForSameSiteDetails gives for one of the exclusion reasons
\* with the report's warnings, operation and URL, and no returned code
\* belongs to a Warn... family.
C1_ExclusionPriority ==
  (createIssuesReturned /\ hasExclusionReasons(args.sameSiteDetails)) =>
    LET d == args.sameSiteDetails IN
    \A i \in DOMAIN result :
      /\ \E e \in ElementsOf(d.cookieExclusionReasons) :
           result[i].code = codeForSameSiteDetails(e, d.cookieWarningReasons,
                                                   d.operation, d.cookieUrl)
      /\ result[i].code \notin WarnFamilyCodes

\* a report with exclusions and warnings for which issues were returned
C1_Witness ==
  /\ createIssuesReturned
  /\ hasExclusionReasons(args.sameSiteDetails)
  /\ hasWarningReasons(args.sameSiteDetails.cookieWarningReasons)
  /\ Len(result) = Len(args.sameSiteDetails.cookieExclusionReasons)
  /\ Len(result) > 1

\* C2: when cookieExclusionReasons is non-empty and holds only
\* ExcludeSameSiteStrict / ExcludeSameSiteLax and the warnings hold no
\* downgrade warning, the factory returns the empty list, also when
\* cookieWarningReasons is non-empty.
C2_UncorroboratedExclusionsYieldNothing ==
  ( /\ createIssuesReturned
    /\ hasExclusionReasons(args.sameSiteDetails)
    /\ ElementsOf(args.sameSiteDetails.cookieExclusionReasons) \subseteq StrictOrLax
    /\ ElementsOf(args.sameSiteDetails.cookieWarningReasons) \cap DowngradeWarnings = {} )
  => result = <<>>

\* only Strict/Lax exclusions, warnings present that alone would give issues
C2_Witness ==
  /\ createIssuesReturned
  /\ args.sameSiteDetails.cookieExclusionReasons = <<ExcludeSameSiteStrict, ExcludeSameSiteLax>>
  /\ args.sameSiteDetails.cookieWarningReasons = <<WarnSameSiteNoneInsecure>>
  /\ createIssuesFromSameSiteDetails(
       [args.sameSiteDetails EXCEPT !.cookieExclusionReasons = <<>>]) # <<>>
  /\ result = <<>>

----------------------------------------------------------------------------
(* Properties of codeForSameSiteDetails. *)

\* C3: for reason ExcludeSameSiteStrict or ExcludeSameSiteLax the resolver
\* returns null whenever the warnings hold no downgrade warning, for every
\* operation and cookie URL.
C3_StrictLaxWithoutDowngradeIsNull ==
  ( /\ codeForReturned
    /\ args.reason \in StrictOrLax
    /\ ElementsOf(args.warningReasons) \cap DowngradeWarnings = {} )
  => result = NULL

\* Strict with non-empty, non-downgrade warnings and no URL
C3_Witness ==
  /\ codeForReturned
  /\ args.reason = ExcludeSameSiteStrict
  /\ args.warningReasons = <<WarnSameSiteNoneInsecure, WarnSameSiteUnspecifiedLaxAllowUnsafe>>
  /\ args.operation = "ReadCookie"
  /\ args.cookieUrl = UNDEFINED
  /\ result = NULL

\* C4: the resolver returns null exactly when the reason is
\* ExcludeSameSiteStrict or ExcludeSameSiteLax and the warnings hold no
\* downgrade warning; in every other case it returns a code string.
C4_NullOnlyForUncorroboratedStrictLax ==
  codeForReturned =>
    /\ result = NULL <=>
         ( /\ args.reason \in StrictOrLax
           /\ ElementsOf(args.warningReasons) \cap DowngradeWarnings = {} )
    /\ result # ""

\* a reason that matches no specific branch resolves to a code
C4_Witness ==
  /\ codeForReturned
  /\ args.reason = ExcludeSameSiteNoneInsecure
  /\ args.warningReasons = UNDEFINED
  /\ result = "SameSiteCookieIssue::ExcludeSameSiteNoneInsecure::SetCookie"

\* C5: for the three SameSite exclusion reasons, when the warnings contain
\* WarnSameSiteStrictLaxDowngradeStrict the code is
\* SameSiteCookieIssue::ExcludeNavigationContextDowngrade::{secure}, also
\* when a cross-downgrade warning is present, in any order.
C5_NavigationDowngradeWins ==
  ( /\ codeForReturned
    /\ args.reason \in SameSiteExclusions
    /\ WarnSameSiteStrictLaxDowngradeStrict \in ElementsOf(args.warningReasons) )
  => result = "SameSiteCookieIssue::ExcludeNavigationContextDowngrade::"
                \o SecureLabel(args.cookieUrl)

\* a cross-downgrade warning precedes the navigation downgrade warning
C5_Witness ==
  /\ codeForReturned
  /\ args.reason = ExcludeSameSiteLax
  /\ args.warningReasons = <<WarnSameSiteLaxCrossDowngradeLax, WarnSameSiteStrictLaxDowngradeStrict>>
  /\ args.operation = "SetCookie"
  /\ result = "SameSiteCookieIssue::ExcludeNavigationContextDowngrade::Secure"

\* C6: for the three SameSite exclusion reasons, when the warnings contain
\* no WarnSameSiteStrictLaxDowngradeStrict but one of the four cross-downgrade
\* warnings, the code is
\* SameSiteCookieIssue::ExcludeContextDowngrade::{operation}::{secure}.
C6_CrossDowngradeExclusion ==
  ( /\ codeForReturned
    /\ args.reason \in SameSiteExclusions
    /\ WarnSameSiteStrictLaxDowngradeStrict \notin ElementsOf(args.warningReasons)
    /\ ElementsOf(args.warningReasons) \cap CrossDowngradeWarnings # {} )
  => result = "SameSiteCookieIssue::ExcludeContextDowngrade::" \o args.operation
                \o "::" \o SecureLabel(args.cookieUrl)

\* the cross-downgrade warning comes after a non-downgrade warning
C6_Witness ==
  /\ codeForReturned
  /\ args.reason = ExcludeSameSiteUnspecifiedTreatedAsLax
  /\ args.warningReasons = <<WarnSameSiteNoneInsecure, WarnSameSiteLaxCrossDowngradeLax>>
  /\ result = "SameSiteCookieIssue::ExcludeContextDowngrade::ReadCookie::Insecure"

\* C7: for reason ExcludeSameSiteUnspecifiedTreatedAsLax without a downgrade
\* warning the code is
\* SameSiteCookieIssue::ExcludeSameSiteUnspecifiedTreatedAsLax::{operation},
\* and this reason never resolves to null.
C7_UnspecifiedTreatedAsLax ==
  (codeForReturned /\ args.reason = ExcludeSameSiteUnspecifiedTreatedAsLax) =>
    /\ result # NULL
    /\ ElementsOf(args.warningReasons) \cap DowngradeWarnings = {} =>
         result = "SameSiteCookieIssue::ExcludeSameSiteUnspecifiedTreatedAsLax::"
                    \o args.operation

\* non-empty warnings without a downgrade warning, secure URL
C7_Witness ==
  /\ codeForReturned
  /\ args.reason = ExcludeSameSiteUnspecifiedTreatedAsLax
  /\ args.warningReasons = <<WarnSameSiteUnspecifiedCrossSiteContext>>
  /\ HasSecureScheme(args.cookieUrl)
  /\ result = "SameSiteCookieIssue::ExcludeSameSiteUnspecifiedTreatedAsLax::SetCookie"

\* C8: a code that carries a secure component ends in Secure exactly when
\* cookieUrl is present and starts with https:// or wss://, and in Insecure
\* otherwise; the downgrade families always carry the component.
C8_SecureFromScheme ==
  codeForReturned =>
    /\ result \in CodesEndingIn("Secure") => HasSecureScheme(args.cookieUrl)
    /\ result \in CodesEndingIn("Insecure") => ~HasSecureScheme(args.cookieUrl)
    /\ ( \/ args.reason \in DowngradeWarnings
         \/ /\ args.reason \in SameSiteExclusions
            /\ ElementsOf(args.warningReasons) \cap DowngradeWarnings # {} )
       => result \in CodesEndingIn("Secure") \cup CodesEndingIn("Insecure")

\* a wss:// URL gives Secure
C8_Witness ==
  /\ codeForReturned
  /\ args.cookieUrl = <<"w", "s", "s", ":", "/", "/", "a">>
  /\ result = "SameSiteCookieIssue::WarnCrossDowngrade::ReadCookie::Secure"

\* C9: for reason WarnSameSiteStrictLaxDowngradeStrict the code is
\* SameSiteCookieIssue::WarnSameSiteStrictLaxDowngradeStrict::{secure},
\* whatever the operation and the warnings passed in.
C9_WarnStrictLaxDowngradeStrict ==
  (codeForReturned /\ args.reason = WarnSameSiteStrictLaxDowngradeStrict) =>
    result = "SameSiteCookieIssue::WarnSameSiteStrictLaxDowngradeStrict::"
               \o SecureLabel(args.cookieUrl)

\* called for SetCookie with other warnings passed in
C9_Witness ==
  /\ codeForReturned
  /\ args.reason = WarnSameSiteStrictLaxDowngradeStrict
  /\ args.operation = "SetCookie"
  /\ args.warningReasons = <<WarnSameSiteStrictLaxDowngradeStrict, WarnSameSiteLaxCrossDowngradeLax>>
  /\ result = "SameSiteCookieIssue::WarnSameSiteStrictLaxDowngradeStrict::Insecure"

\* C10: for each of the four cross-downgrade warning reasons the code is
\* SameSiteCookieIssue::WarnCrossDowngrade::{operation}::{secure}.
C10_WarnCrossDowngrade ==
  (codeForReturned /\ args.reason \in CrossDowngradeWarnings) =>
    result = "SameSiteCookieIssue::WarnCrossDowngrade::" \o args.operation
               \o "::" \o SecureLabel(args.cookieUrl)

\* the last of the four reasons the code compares against
C10_Witness ==
  /\ codeForReturned
  /\ args.reason = WarnSameSiteLaxCrossDowngradeStrict
  /\ result = "SameSiteCookieIssue::WarnCrossDowngrade::SetCookie::Secure"


\* the reasons that match no specific branch of the resolver
GenericReasons ==
  (SameSiteCookieExclusionReason \cup SameSiteCookieWarningReason)
    \ (SameSiteExclusions \cup DowngradeWarnings)

\* C11: for every reason outside the three SameSite exclusions and the five
\* downgrade warnings the code is exactly
\* SameSiteCookieIssue::{reason}::{operation}, without a secure component,
\* whatever the cookie URL and the warnings are.
C11_GenericCode ==
  (codeForReturned /\ args.reason \in GenericReasons) =>
    result = "SameSiteCookieIssue::" \o args.reason \o "::" \o args.operation

\* a generic warning reason, an http URL and downgrade warnings passed in
C11_Witness ==
  /\ codeForReturned
  /\ args.reason = WarnSameSiteNoneInsecure
  /\ args.operation = "SetCookie"
  /\ args.cookieUrl = <<"h", "t", "t", "p", ":", "/", "/", "a">>
  /\ args.warningReasons = <<WarnSameSiteStrictLaxDowngradeStrict, WarnSameSiteLaxCrossDowngradeLax>>
  /\ result = "SameSiteCookieIssue::WarnSameSiteNoneInsecure::SetCookie"


----------------------------------------------------------------------------
(* Further properties of createIssuesFromSameSiteDetails. *)

\* the code a warning reason stands for, by family
WarnCodeOf(w, op, url) ==
  IF w = WarnSameSiteStrictLaxDowngradeStrict
  THEN "SameSiteCookieIssue::WarnSameSiteStrictLaxDowngradeStrict::" \o SecureLabel(url)
  ELSE IF w \in CrossDowngradeWarnings
  THEN "SameSiteCookieIssue::WarnCrossDowngrade::" \o op \o "::" \o SecureLabel(url)
  ELSE "SameSiteCookieIssue::" \o w \o "::" \o op

\* C12: when cookieExclusionReasons is empty or absent, the factory returns
\* exactly one issue per element of cookieWarningReasons, and the code of the
\* i-th issue is what the resolver gives for the i-th warning with an empty
\* warning set, so the other warnings of the report do not change it.
C12_OneIssuePerWarning ==
  (createIssuesReturned /\ ~hasExclusionReasons(args.sameSiteDetails)) =>
    LET d == args.sameSiteDetails
        ws == d.cookieWarningReasons
    IN IF ws = UNDEFINED THEN result = <<>>
       ELSE /\ Len(result) = Len(ws)
            /\ \A i \in DOMAIN result :
                 /\ result[i].code =
                      codeForSameSiteDetails(ws[i], <<>>, d.operation, d.cookieUrl)
                 /\ result[i].code = WarnCodeOf(ws[i], d.operation, d.cookieUrl)

\* absent exclusions, two downgrade warnings on the same report
C12_Witness ==
  /\ createIssuesReturned
  /\ args.sameSiteDetails.cookieExclusionReasons = UNDEFINED
  /\ args.sameSiteDetails.cookieWarningReasons =
       <<WarnSameSiteStrictLaxDowngradeStrict, WarnSameSiteNoneInsecure>>
  /\ Len(result) = 2
  /\ result[2].code = "SameSiteCookieIssue::WarnSameSiteNoneInsecure::ReadCookie"

\* the reason list the factory iterates, and the warnings it passes on
IteratedReasons(d) ==
  IF hasExclusionReasons(d) THEN d.cookieExclusionReasons
  ELSE IF d.cookieWarningReasons = UNDEFINED THEN <<>>
  ELSE d.cookieWarningReasons

PassedWarnings(d) ==
  IF hasExclusionReasons(d) THEN d.cookieWarningReasons ELSE <<>>

\* C13: the returned codes are the codes of the iterated reason list
\* (exclusions if non-empty, otherwise warnings), element by element in input
\* order, with the null results deleted: the j-th issue comes from the j-th
\* reason that resolves to a code; duplicates are kept and the output is
\* never longer than the list.
C13_OrderPreservingFilter ==
  createIssuesReturned =>
    LET d == args.sameSiteDetails
        L == IteratedReasons(d)
        codes == [i \in DOMAIN L |->
                    codeForSameSiteDetails(L[i], PassedWarnings(d),
                                           d.operation, d.cookieUrl)]
        kept == { i \in DOMAIN L : codes[i] # NULL }
    IN /\ Len(result) = Cardinality(kept)
       /\ Len(result) <= Len(L)
       /\ \A j \in DOMAIN result :
            \E i \in kept :
              /\ Cardinality({ k \in kept : k <= i }) = j
              /\ result[j].code = codes[i]

\* the first reason is dropped, the second kept
C13_Witness ==
  /\ createIssuesReturned
  /\ args.sameSiteDetails.cookieExclusionReasons =
       <<ExcludeSameSiteStrict, ExcludeSameSiteNoneInsecure>>
  /\ args.sameSiteDetails.cookieWarningReasons = <<WarnSameSiteNoneInsecure>>
  /\ Len(result) = 1
  /\ result[1].code = "SameSiteCookieIssue::ExcludeSameSiteNoneInsecure::SetCookie"


----------------------------------------------------------------------------
(* Properties of isCausedByThirdParty and isSubdomainOf. *)

isCausedByThirdPartyReturned == pc = "return" /\ callee = "isCausedByThirdParty"

isSubdomainOfReturned == pc = "return" /\ callee = "isSubdomainOf"

\* sub equals sup, or sub is longer, ends with sup character by character and
\* has a '.' right before that suffix
SameOrDotSuffix(sub, sup) ==
  \/ sub = sup
  \/ /\ Len(sub) > Len(sup)
     /\ \A i \in 1..Len(sup) : sub[Len(sub) - Len(sup) + i] = sup[i]
     /\ sub[Len(sub) - Len(sup)] = "."

\* C14: with a null top frame isCausedByThirdParty returns true for every
\* cookieUrl, also an absent or empty one.
C14_NullTopFrameIsThirdParty ==
  (isCausedByThirdPartyReturned /\ args.topFrame = NullObject) => result = TRUE

\* null top frame and no cookieUrl
C14_Witness ==
  /\ isCausedByThirdPartyReturned
  /\ args.topFrame = NullObject
  /\ args.cookieUrl = UNDEFINED
  /\ result = TRUE

\* C15: with a top frame, isCausedByThirdParty returns false when cookieUrl
\* is absent or empty, or when the frame's registrable domain is empty,
\* whatever the cookie's domain is.
C15_NoUrlOrNoDomainIsFirstParty ==
  ( /\ isCausedByThirdPartyReturned
    /\ args.topFrame # NullObject
    /\ \/ args.cookieUrl \in {UNDEFINED, <<>>}
       \/ args.topFrame.domainAndRegistry = <<>> )
  => result = FALSE

\* empty registrable domain, cookie from b.com
C15_Witness ==
  /\ isCausedByThirdPartyReturned
  /\ args.topFrame = [domainAndRegistry |-> <<>>]
  /\ args.cookieUrl = UrlOfHost(<<"b", ".", "c", "o", "m">>)
  /\ result = FALSE

\* C16: with a top frame of non-empty registrable domain and a cookieUrl that
\* does not parse as a URL, isCausedByThirdParty returns false.
C16_UnparseableUrlIsFirstParty ==
  ( /\ isCausedByThirdPartyReturned
    /\ args.topFrame # NullObject
    /\ args.topFrame.domainAndRegistry # <<>>
    /\ args.cookieUrl \in UnparseableUrls )
  => result = FALSE

\* the string b.com, without a scheme, against the frame x.com
C16_Witness ==
  /\ isCausedByThirdPartyReturned
  /\ args.topFrame = [domainAndRegistry |-> <<"x", ".", "c", "o", "m">>]
  /\ args.cookieUrl = <<"b", ".", "c", "o", "m">>
  /\ result = FALSE

\* C17: with a top frame of non-empty registrable domain D and a cookieUrl
\* whose host is C, isCausedByThirdParty returns true exactly when C is
\* neither D nor a dot-separated subdomain of D.
C17_ThirdPartyIsNotSubdomain ==
  ( /\ isCausedByThirdPartyReturned
    /\ args.topFrame # NullObject
    /\ args.topFrame.domainAndRegistry # <<>> )
  => \A C \in Domains :
       args.cookieUrl = UrlOfHost(C) =>
         result = ~SameOrDotSuffix(C, args.topFrame.domainAndRegistry)

\* the cookie host com is a parent of the frame's b.com
C17_Witness ==
  /\ isCausedByThirdPartyReturned
  /\ args.topFrame = [domainAndRegistry |-> <<"b", ".", "c", "o", "m">>]
  /\ args.cookieUrl = UrlOfHost(<<"c", "o", "m">>)
  /\ result = TRUE

\* C18: isSubdomainOf(sub, sup) is true exactly when sub equals sup, or sub
\* is strictly longer than sup, ends with sup, and has '.' immediately
\* before that suffix.
C18_IsSubdomainOf ==
  isSubdomainOfReturned =>
    result = SameOrDotSuffix(args.subdomain, args.superdomain)

\* evilb.com ends with b.com without the separating dot
C18_Witness ==
  /\ isSubdomainOfReturned
  /\ args.subdomain = <<"e", "v", "i", "l", "b", ".", "c", "o", "m">>
  /\ args.superdomain = <<"b", ".", "c", "o", "m">>
  /\ result = FALSE


----------------------------------------------------------------------------
(* Properties of fromInspectorIssue. *)

fromInspectorIssueReturned == pc = "return" /\ callee = "fromInspectorIssue"

\* C20: fromInspectorIssue returns the empty list for a notification without
\* sameSiteCookieIssueDetails, and for a notification with details exactly
\* the issues createIssuesFromSameSiteDetails returns for them: one issue per
\* reason of the iterated list that resolves to a code, each holding the
\* details.
C20_FromInspectorIssue ==
  fromInspectorIssueReturned =>
    LET d == args.inspectorIssue.details.sameSiteCookieIssueDetails
    IN IF d = UndefinedObject THEN result = <<>>
       ELSE /\ result = createIssuesFromSameSiteDetails(d)
            /\ Len(result) =
                 Cardinality({ i \in DOMAIN IteratedReasons(d) :
                   codeForSameSiteDetails(IteratedReasons(d)[i], PassedWarnings(d),
                                          d.operation, d.cookieUrl) # NULL })
            /\ \A j \in DOMAIN result : result[j].issueDetails = d

\* a notification without details: nothing returned, one warning logged
C20_Witness ==
  /\ fromInspectorIssueReturned
  /\ args.inspectorIssue.details.sameSiteCookieIssueDetails = UndefinedObject
  /\ result = <<>>
  /\ console = <<WarnWithoutDetails>>


----------------------------------------------------------------------------
(* Properties of getDescription and getKind. *)

\* the one code the resolver returns that has no description
CodeWithoutDescription == "SameSiteCookieIssue::ExcludeInvalidSameParty::ReadCookie"

\* C22 as stated: every code the resolver returns is a key of
\* issueDescriptions, so getDescription is never null for it.
C22_EveryCodeHasDescription ==
  (codeForReturned /\ result # NULL) => getDescription(result) # NULL

\* C22, amended: every code the resolver returns, and every code of an issue
\* the factory creates, is a key of issueDescriptions, except
\* SameSiteCookieIssue::ExcludeInvalidSameParty::ReadCookie, for which
\* getDescription returns null.
C22_EveryCodeButOneHasDescription ==
  /\ (codeForReturned /\ result # NULL) =>
       (getDescription(result) = NULL <=> result = CodeWithoutDescription)
  /\ createIssuesReturned =>
       \A i \in DOMAIN result :
         getDescription(result[i].code) = NULL <=> result[i].code = CodeWithoutDescription

\* ExcludeInvalidSameParty for SetCookie has its description
C22_Witness ==
  /\ codeForReturned
  /\ args.reason = ExcludeInvalidSameParty
  /\ args.operation = "SetCookie"
  /\ getDescription(result) = "SameSiteInvalidSameParty.md"

\* C24: every issue the factory creates from a report is PageError exactly
\* when the report's cookieExclusionReasons is non-empty and BreakingChange
\* otherwise; an issue with a code of a Warn... family is never PageError and
\* an issue created from an exclusion reason is never BreakingChange.
C24_KindFollowsFactoryPath ==
  createIssuesReturned =>
    LET d == args.sameSiteDetails
        excluded == d.cookieExclusionReasons # UNDEFINED /\ d.cookieExclusionReasons # <<>>
    IN \A i \in DOMAIN result :
         /\ getKind(result[i]) = IF excluded THEN "PageError" ELSE "BreakingChange"
         /\ result[i].code \in WarnFamilyCodes => getKind(result[i]) = "BreakingChange"
         /\ result[i].code \notin WarnFamilyCodes => getKind(result[i]) = "PageError"

\* an issue created from an exclusion reason of a report that has warnings too
C24_Witness ==
  /\ createIssuesReturned
  /\ args.sameSiteDetails.cookieExclusionReasons = <<ExcludeSameSiteNoneInsecure>>
  /\ args.sameSiteDetails.cookieWarningReasons = <<WarnSameSiteNoneInsecure>>
  /\ Len(result) = 1
  /\ getKind(result[1]) = "PageError"


----------------------------------------------------------------------------
(* Properties of primaryKey. *)

primaryKeyReturned == pc = "return" /\ callee = "primaryKey"

\* the cookie component of the triple: the cookie when present, else the raw
\* cookie line, else nothing
CookieIdentity(issue) ==
  IF issue.issueDetails.cookie # UndefinedObject
  THEN <<"cookie", issue.issueDetails.cookie.domain,
         issue.issueDetails.cookie.path, issue.issueDetails.cookie.name>>
  ELSE IF issue.issueDetails.rawCookieLine # UNDEFINED
  THEN <<"rawCookieLine", issue.issueDetails.rawCookieLine>>
  ELSE <<"no-cookie-info">>

\* the request component of the triple
RequestIdentity(issue) ==
  IF issue.issueDetails.request # UndefinedObject
  THEN <<"request", issue.issueDetails.request.requestId>>
  ELSE <<"no-request">>

\* C21: two issues have equal primary keys if and only if they agree on the
\* code, on the cookie identity (domain, path and name, else raw cookie line)
\* and on the request id.
C21_PrimaryKeyIdentifiesTriple ==
  primaryKeyReturned =>
    ( result[1] = result[2] <=>
        /\ args.issues[1].code = args.issues[2].code
        /\ CookieIdentity(args.issues[1]) = CookieIdentity(args.issues[2])
        /\ RequestIdentity(args.issues[1]) = RequestIdentity(args.issues[2]) )

\* whether the elements of a sequence are pairwise different
PairwiseDistinct(seq) ==
  \A i, j \in DOMAIN seq : i # j => seq[i] # seq[j]

\* the issue with a code of the factory and the cookie and request of a report
KeyedIssue(code, keyDetails) == [code |-> code, issueDetails |-> keyDetails]

\* the cookie and request that the issues of one report share: none, a raw
\* cookie line, a cookie and a request
SharedKeyDetails ==
  { [ cookie |-> UndefinedObject, rawCookieLine |-> UNDEFINED, request |-> UndefinedObject ],
    [ cookie |-> UndefinedObject, rawCookieLine |-> <<"a">>, request |-> UndefinedObject ],
    [ cookie |-> [domain |-> <<"a">>, path |-> <<"a">>, name |-> <<"a">>],
      rawCookieLine |-> UNDEFINED, request |-> [requestId |-> <<"1">>] ] }

\* C23 as stated: when the iterated reason list has no repeated reason, the
\* issues of one factory call have pairwise distinct codes.
C23_DistinctReasonsDistinctCodes ==
  (createIssuesReturned /\ PairwiseDistinct(IteratedReasons(args.sameSiteDetails))) =>
    PairwiseDistinct([i \in DOMAIN result |-> result[i].code])

\* reasons that the resolver maps to one code: the cross-downgrade warnings
\* as reasons, and the SameSite exclusions when a downgrade warning is passed
SharesCode(d) ==
  IF hasExclusionReasons(d)
  THEN /\ ElementsOf(d.cookieWarningReasons) \cap DowngradeWarnings # {}
       /\ Cardinality(ElementsOf(d.cookieExclusionReasons) \cap SameSiteExclusions) > 1
  ELSE Cardinality(ElementsOf(d.cookieWarningReasons) \cap CrossDowngradeWarnings) > 1

\* C23, amended: when the iterated reason list has no repeated reason and no
\* two of its reasons share a code (at most one cross-downgrade warning on the
\* warning path; at most one SameSite exclusion when the warnings hold a
\* downgrade warning), the issues of one factory call have pairwise distinct
\* codes and, sharing cookie and request, pairwise distinct primary keys.
C23_DistinctFamiliesDistinctCodes ==
  ( /\ createIssuesReturned
    /\ PairwiseDistinct(IteratedReasons(args.sameSiteDetails))
    /\ ~SharesCode(args.sameSiteDetails) )
  => /\ PairwiseDistinct([i \in DOMAIN result |-> result[i].code])
     /\ \A keyDetails \in SharedKeyDetails :
          PairwiseDistinct([i \in DOMAIN result |->
                              primaryKey(KeyedIssue(result[i].code, keyDetails))])

\* two warnings of different families give two codes
C23_Witness ==
  /\ createIssuesReturned
  /\ ~hasExclusionReasons(args.sameSiteDetails)
  /\ args.sameSiteDetails.cookieWarningReasons =
       <<WarnSameSiteStrictLaxDowngradeStrict, WarnSameSiteStrictCrossDowngradeStrict>>
  /\ Len(result) = 2
  /\ result[1].code # result[2].code


----------------------------------------------------------------------------
(* The lanes of front_end/panels/timeline/components/WebVitalsLane.ts.     *)
(* lanes holds the timeline a lane draws on, which lane it is, the method  *)
(* called last, whether an overlay callback was given, the overlay of the  *)
(* timeline, the fields of the lane, the number of marker arrays built so  *)
(* far and the renderTimebox calls of the last render.  The two lanes      *)
(* share no field, so a behaviour exercises one of them.                   *)

\* no function of the classifier is invoked
NoCall ==
  /\ pc = "idle"
  /\ callee = "none"
  /\ args = <<>>
  /\ result = <<>>
  /\ console = <<>>

\* a number given where number|null is expected
Number(n) == [number |-> n]

\* the x of a pointer event, or null when the pointer left the lane
PointerPositions == {NullObject} \cup { Number(n) : n \in {0, 30, 50} }

\* Event of WebVitalsTimeline, as far as the lane reads it
Events == [ timestamp : {0, 40} ]

\* Timebox of WebVitalsTimeline
Timeboxes == [ start : {0, 40}, duration : {10, 60} ]

\* the times the lanes convert to pixels
Times == {0, 10, 40, 50, 60, 100}

\* the timelines a lane is constructed with: tX is a method of the timeline
Timelines ==
  { [ tX |-> [t \in Times |-> t] ],
    [ tX |-> [t \in Times |-> t + 10] ] }

\* WebVitalsLane.tX
tX(x) == lanes.timeline.tX[x]

\* the metrics of the lane's label, as measured at construction
labelMetrics == [ width |-> 10 ]

\* WebVitalsEventLane.getMarker; object is the identity of the new marker
getMarker(event, object) ==
  [ timestamp |-> event.timestamp,
    widthIncludingLabel |-> 10 + 5 + labelMetrics.width + 5,
    object |-> object ]

\* markers.find(m => tX - 5 <= x && x <= tX + m.widthIncludingLabel) || null
findMarker(x) ==
  LET markers == lanes.markers
      hit(m) == tX(m.timestamp) - 5 <= x /\ x <= tX(m.timestamp) + m.widthIncludingLabel
  IN  IF \E i \in DOMAIN markers : hit(markers[i])
      THEN markers[CHOOSE i \in DOMAIN markers :
                     hit(markers[i]) /\ \A j \in 1..(i - 1) : ~hit(markers[j])]
      ELSE NullObject

\* variant: the index counted from 1
findBox_oneBased(x) ==
  LET boxes == lanes.boxes
      hit(box) == tX(box.start) <= x /\ x <= tX(box.start + box.duration)
  IN  IF \E i \in DOMAIN boxes : hit(boxes[i])
      THEN CHOOSE i \in DOMAIN boxes :
             hit(boxes[i]) /\ \A j \in 1..(i - 1) : ~hit(boxes[j])
      ELSE -1

\* boxes.findIndex(box => start <= x && x <= end), counted from 0
findBox(x) ==
  LET boxes == lanes.boxes
      hit(box) == tX(box.start) <= x /\ x <= tX(box.start + box.duration)
  IN  IF \E i \in DOMAIN boxes : hit(boxes[i])
      THEN (CHOOSE i \in DOMAIN boxes :
              hit(boxes[i]) /\ \A j \in 1..(i - 1) : ~hit(boxes[j])) - 1
      ELSE -1

\* a call renderTimebox(this.boxes[i], hover)
renderTimebox(i, hover) == [ box |-> i, hover |-> hover ]

\* the renderTimebox calls of WebVitalsTimeboxLane.render, in order
renderTimeboxes ==
  LET others(i) == ~(i = lanes.hoverBox \/ i = lanes.selectedBox)
      indices == SelectSeq([k \in 1..Len(lanes.boxes) |-> k - 1], others)
  IN  [k \in 1..Len(indices) |-> renderTimebox(indices[k], FALSE)]
        \o (IF lanes.hoverBox # -1 THEN <<renderTimebox(lanes.hoverBox, TRUE)>> ELSE <<>>)
        \o (IF lanes.selectedBox # -1
            THEN <<renderTimebox(lanes.selectedBox, TRUE)>> ELSE <<>>)

\* a lane has been constructed on a timeline
InitLanes ==
  /\ NoCall
  /\ popovers = NullObject
  /\ view = NullObject
  /\ lanes \in [ timeline : Timelines,
                 lane : {"WebVitalsEventLane", "WebVitalsTimeboxLane"},
                 called : {"constructor"},
                 getOverlay : BOOLEAN,
                 overlay : {[shown |-> FALSE]},
                 markers : {<<>>},
                 hoverMarker : {NullObject},
                 selectedMarker : {NullObject},
                 created : {0},
                 boxes : {<<>>},
                 hoverBox : {-1},
                 selectedBox : {-1},
                 drawn : {<<>>} ]

\* timeline.showOverlay / hideOverlay after the hovered item changed
overlayAfter(changed, hovered, item) ==
  IF changed
  THEN IF hovered /\ lanes.getOverlay
       THEN [shown |-> TRUE, of |-> item] ELSE [shown |-> FALSE]
  ELSE lanes.overlay

\* WebVitalsEventLane.handlePointerMove
WebVitalsEventLane_handlePointerMove ==
  /\ lanes.lane = "WebVitalsEventLane"
  /\ \E x \in PointerPositions :
       LET found == IF x = NullObject THEN NullObject ELSE findMarker(x.number)
       IN  lanes' = [lanes EXCEPT
                       !.hoverMarker = found,
                       !.overlay = overlayAfter(lanes.hoverMarker # found,
                                                found # NullObject, found),
                       !.called = "handlePointerMove"]
  /\ UNCHANGED <<classifierVars, popovers, view>>

\* WebVitalsEventLane.handleClick
WebVitalsEventLane_handleClick ==
  /\ lanes.lane = "WebVitalsEventLane"
  /\ lanes' = [lanes EXCEPT !.selectedMarker = lanes.hoverMarker,
                            !.called = "handleClick"]
  /\ UNCHANGED <<classifierVars, popovers, view>>

\* WebVitalsEventLane.setEvents: both markers are reset and every event gets
\* a new marker object
WebVitalsEventLane_setEvents ==
  /\ lanes.lane = "WebVitalsEventLane"
  /\ lanes.created < MaxMarkerArrays
  /\ \E events \in ArraysUpTo(Events, MaxEvents) :
       lanes' = [lanes EXCEPT
                   !.hoverMarker = NullObject,
                   !.selectedMarker = NullObject,
                   !.markers = [i \in DOMAIN events |->
                                  getMarker(events[i], <<lanes.created + 1, i>>)],
                   !.created = lanes.created + 1,
                   !.called = "setEvents"]
  /\ UNCHANGED <<classifierVars, popovers, view>>

\* WebVitalsTimeboxLane.handlePointerMove
WebVitalsTimeboxLane_handlePointerMove ==
  /\ lanes.lane = "WebVitalsTimeboxLane"
  /\ \E x \in PointerPositions :
       LET found == IF x = NullObject THEN -1 ELSE findBox(x.number)
       IN  lanes' = [lanes EXCEPT
                       !.hoverBox = found,
                       !.overlay = overlayAfter(lanes.hoverBox # found, found # -1,
                                                IF found \in 0..(Len(lanes.boxes) - 1)
                                                THEN lanes.boxes[found + 1]
                                                ELSE UndefinedObject),
                       !.called = "handlePointerMove"]
  /\ UNCHANGED <<classifierVars, popovers, view>>

\* WebVitalsTimeboxLane.handleClick
WebVitalsTimeboxLane_handleClick ==
  /\ lanes.lane = "WebVitalsTimeboxLane"
  /\ lanes' = [lanes EXCEPT !.selectedBox = lanes.hoverBox,
                            !.called = "handleClick"]
  /\ UNCHANGED <<classifierVars, popovers, view>>

\* WebVitalsTimeboxLane.setTimeboxes
WebVitalsTimeboxLane_setTimeboxes ==
  /\ lanes.lane = "WebVitalsTimeboxLane"
  /\ \E boxes \in ArraysUpTo(Timeboxes, MaxTimeboxes) :
       lanes' = [lanes EXCEPT !.selectedBox = -1,
                              !.hoverBox = -1,
                              !.boxes = boxes,
                              !.called = "setTimeboxes"]
  /\ UNCHANGED <<classifierVars, popovers, view>>

\* WebVitalsTimeboxLane.render
WebVitalsTimeboxLane_render ==
  /\ lanes.lane = "WebVitalsTimeboxLane"
  /\ lanes' = [lanes EXCEPT !.drawn = renderTimeboxes,
                            !.called = "render"]
  /\ UNCHANGED <<classifierVars, popovers, view>>

NextLanes ==
  \/ WebVitalsEventLane_handlePointerMove
  \/ WebVitalsEventLane_handleClick
  \/ WebVitalsEventLane_setEvents
  \/ WebVitalsTimeboxLane_handlePointerMove
  \/ WebVitalsTimeboxLane_handleClick
  \/ WebVitalsTimeboxLane_setTimeboxes
  \/ WebVitalsTimeboxLane_render

SpecLanes == InitLanes /\ [][NextLanes]_vars

----------------------------------------------------------------------------
(* Properties of the lanes. *)

\* C25: after any sequence of setEvents or setTimeboxes, handlePointerMove and
\* handleClick, hoverMarker and selectedMarker are null or one of the current
\* markers, hoverBox and selectedBox are -1 or an index into the current
\* boxes, and replacing the data resets both to the empty value.
C25_SelectionWithinData ==
  /\ \/ lanes.hoverMarker = NullObject
     \/ \E i \in DOMAIN lanes.markers : lanes.markers[i] = lanes.hoverMarker
  /\ \/ lanes.selectedMarker = NullObject
     \/ \E i \in DOMAIN lanes.markers : lanes.markers[i] = lanes.selectedMarker
  /\ lanes.hoverBox = -1 \/ lanes.hoverBox \in 0..(Len(lanes.boxes) - 1)
  /\ lanes.selectedBox = -1 \/ lanes.selectedBox \in 0..(Len(lanes.boxes) - 1)
  /\ lanes.called = "setEvents" =>
       (lanes.hoverMarker = NullObject /\ lanes.selectedMarker = NullObject)
  /\ lanes.called = "setTimeboxes" => (lanes.hoverBox = -1 /\ lanes.selectedBox = -1)

\* the last of two boxes is hovered and has been selected by a click
C25_Witness ==
  /\ lanes.lane = "WebVitalsTimeboxLane"
  /\ lanes.called = "handleClick"
  /\ Len(lanes.boxes) = 2
  /\ lanes.hoverBox = 1
  /\ lanes.selectedBox = 1

\* the number of renderTimebox calls of the last render for the box at i
timesDrawn(i) == Cardinality({ k \in DOMAIN lanes.drawn : lanes.drawn[k].box = i })

\* C26: in one WebVitalsTimeboxLane.render call every box is drawn exactly
\* once, whatever hoverBox and selectedBox are, also when they are equal.
C26_EveryBoxDrawnOnce ==
  (lanes.lane = "WebVitalsTimeboxLane" /\ lanes.called = "render") =>
    \A i \in 0..(Len(lanes.boxes) - 1) : timesDrawn(i) = 1

----------------------------------------------------------------------------
(* The swatch popover icons of front_end/panels/elements/                  *)
(* ColorSwatchPopoverIcon.ts.  The icons are constructed with one tree     *)
(* element and one popover helper.  popovers holds the helper (whether a   *)
(* popover is showing and the callback to run when it is hidden), whether  *)
(* the pane is editing a style, the property and the text the swatch       *)
(* renders to, and per icon its editor, its scroll listener and the        *)
(* property text it captured; handler and calls are the handler that ran   *)
(* last and the calls it made, textAtOpen the property text when the last  *)
(* popover was opened.                                                     *)

\* a string given where string|null is expected
String(s) == [string |-> s]

\* the three icons
Icons == {"BezierPopoverIcon", "ColorSwatchPopoverIcon", "ShadowSwatchPopoverHelper"}

\* the texts of the property
PropertyTexts == {"", "a", "b"}

\* the icons with a public showPopover
IconsWithShowPopover == {"ColorSwatchPopoverIcon", "ShadowSwatchPopoverHelper"}

\* a call made by a handler
Call(call, icon, text, flag) == [call |-> call, icon |-> icon, text |-> text, flag |-> flag]

\* this._originalPropertyText || ''
orEmpty(text) ==
  IF text = UndefinedObject \/ text = NullObject THEN "" ELSE text.string

\* SwatchPopoverHelper.show(view, anchor, hiddenCallback)
SwatchPopoverHelper_show(icon) == [showing |-> TRUE, hiddenCallback |-> icon]

\* variant: the popover is reverted to the current text of the property
onPopoverHidden_revertsToCurrent(state, icon, commitEdit) ==
  LET propertyText == IF commitEdit THEN state.renderedPropertyText
                      ELSE orEmpty(state.property.propertyText)
  IN  [state EXCEPT
         !.scrollListeners[icon] = FALSE,
         !.editors[icon] = FALSE,
         !.property = [propertyText |-> String(propertyText)],
         !.isEditingStyle = FALSE,
         !.originalPropertyText[icon] = UndefinedObject,
         !.calls = @ \o << Call("applyStyleText", icon, propertyText, TRUE),
                           Call("setEditingStyle", icon, "", FALSE) >>]

\* _onPopoverHidden(commitEdit) of the three icons, run in a state and giving
\* the state it leaves
onPopoverHidden(state, icon, commitEdit) ==
  LET propertyText == IF commitEdit THEN state.renderedPropertyText
                      ELSE orEmpty(state.originalPropertyText[icon])
  IN  [state EXCEPT
         !.scrollListeners[icon] = FALSE,
         !.editors[icon] = FALSE,
         !.property = [propertyText |-> String(propertyText)],
         !.isEditingStyle = FALSE,
         !.originalPropertyText[icon] = UndefinedObject,
         !.calls = @ \o << Call("applyStyleText", icon, propertyText, TRUE),
                           Call("setEditingStyle", icon, "", FALSE) >>]

\* SwatchPopoverHelper.hide(commitEdit): a showing popover is hidden and its
\* hidden callback runs
SwatchPopoverHelper_hide(state, commitEdit) ==
  IF state.helper.showing
  THEN onPopoverHidden(
         [state EXCEPT
            !.helper = [showing |-> FALSE, hiddenCallback |-> "none"],
            !.calls = @ \o <<Call("hide", state.helper.hiddenCallback, "", commitEdit)>>],
         state.helper.hiddenCallback, commitEdit)
  ELSE [state EXCEPT !.calls = @ \o <<Call("hide", "none", "", commitEdit)>>]

\* the part of showPopover after the early returns: the editor is created and
\* shown, the property text is captured, the pane is told
openPopover(state, icon) ==
  [state EXCEPT
     !.editors[icon] = TRUE,
     !.helper = SwatchPopoverHelper_show(icon),
     !.scrollListeners[icon] = state.scrollerElement,
     !.originalPropertyText[icon] = state.property.propertyText,
     !.isEditingStyle = TRUE,
     !.textAtOpen = state.property.propertyText,
     !.calls = @ \o << Call("new editor", icon, "", TRUE),
                       Call("show", icon, "", TRUE),
                       Call("setEditingStyle", icon, "", TRUE) >>]

\* variant: the popover is opened again after a showing one was hidden
togglePopover_reopens(state, icon, canShow) ==
  IF state.helper.showing
  THEN openPopover(SwatchPopoverHelper_hide(state, TRUE), icon)
  ELSE IF ~canShow
  THEN state
  ELSE openPopover(state, icon)

\* the body of showPopover (of BezierPopoverIcon._iconClick): a showing
\* popover is hidden with commit and nothing else happens; canShow is whether
\* the swatch has a colour and a format
togglePopover(state, icon, canShow) ==
  IF state.helper.showing
  THEN SwatchPopoverHelper_hide(state, TRUE)
  ELSE IF ~canShow
  THEN state
  ELSE openPopover(state, icon)

\* the icons have been constructed; no popover is showing
InitPopovers ==
  /\ NoCall
  /\ lanes = NullObject
  /\ view = NullObject
  /\ popovers \in
       [ helper : {[showing |-> FALSE, hiddenCallback |-> "none"]},
         isEditingStyle : {FALSE},
         property : [ propertyText : {NullObject} \cup { String(s) : s \in PropertyTexts } ],
         renderedPropertyText : PropertyTexts \ {""},
         editors : {[icon \in Icons |-> FALSE]},
         scrollListeners : {[icon \in Icons |-> FALSE]},
         originalPropertyText : {[icon \in Icons |-> UndefinedObject]},
         fontEditor : BOOLEAN,
         scrollerElement : BOOLEAN,
         handler : {[icon |-> "none", method |-> "constructor", wasShowing |-> FALSE]},
         calls : {<<>>},
         textAtOpen : {UndefinedObject} ]

\* whether the swatch has a colour and a format: only the colour icon asks
canShowOf(icon) == IF icon = "ColorSwatchPopoverIcon" THEN BOOLEAN ELSE {TRUE}

\* a handler of an icon begins: before holds the calls it makes first
began(icon, method, before) ==
  [popovers EXCEPT
     !.handler = [icon |-> icon, method |-> method,
                  wasShowing |-> popovers.helper.showing],
     !.calls = before]

\* _iconClick of an icon
iconClick(icon) ==
  /\ \E canShow \in canShowOf(icon) :
       popovers' =
         togglePopover(began(icon, "_iconClick",
                             IF popovers.fontEditor
                             THEN <<Call("cssEditorOpened", icon, "", TRUE)>> ELSE <<>>),
                       icon, canShow)
  /\ UNCHANGED <<classifierVars, lanes, view>>

\* showPopover of the colour and shadow icons
showPopover(icon) ==
  /\ icon \in IconsWithShowPopover
  /\ \E canShow \in canShowOf(icon) :
       popovers' = togglePopover(began(icon, "showPopover", <<>>), icon, canShow)
  /\ UNCHANGED <<classifierVars, lanes, view>>

\* the value an editor reports, as the property text it renders to; for the
\* colour icon also a value that Color.parse rejects
changedTo(icon) ==
  { String(s) : s \in PropertyTexts \ {""} }
    \cup (IF icon = "ColorSwatchPopoverIcon" THEN {NullObject} ELSE {})

\* _bezierChanged, _spectrumChanged, _shadowChanged: the editor of an open
\* popover reports a value, the swatch renders it and the rendered property
\* text is applied as a minor change; the colour icon ignores a value that is
\* no colour
editorChanged(icon) ==
  /\ popovers.editors[icon]
  /\ \E data \in changedTo(icon) :
       popovers' =
         IF data = NullObject
         THEN began(icon, "changed", <<>>)
         ELSE [began(icon, "changed",
                     <<Call("applyStyleText", icon, data.string, FALSE)>>) EXCEPT
                 !.renderedPropertyText = data.string,
                 !.property = [propertyText |-> String(data.string)]]
  /\ UNCHANGED <<classifierVars, lanes, view>>

\* _onScroll of an icon whose scroll listener is registered
onScroll(icon) ==
  /\ popovers.scrollListeners[icon]
  /\ popovers' = SwatchPopoverHelper_hide(began(icon, "_onScroll", <<>>), TRUE)
  /\ UNCHANGED <<classifierVars, lanes, view>>

\* the helper hides its popover for a reason of its own (a key, a click
\* outside), with or without commit
popoverHidden ==
  /\ popovers.helper.showing
  /\ \E commitEdit \in BOOLEAN :
       popovers' = SwatchPopoverHelper_hide(
                     began(popovers.helper.hiddenCallback, "hide", <<>>), commitEdit)
  /\ UNCHANGED <<classifierVars, lanes, view>>

NextPopovers ==
  \/ \E icon \in Icons : iconClick(icon)
  \/ \E icon \in Icons : showPopover(icon)
  \/ \E icon \in Icons : editorChanged(icon)
  \/ \E icon \in Icons : onScroll(icon)
  \/ popoverHidden

SpecPopovers == InitPopovers /\ [][NextPopovers]_vars

----------------------------------------------------------------------------
(* Properties of the swatch popover icons. *)

\* the positions of the calls of one kind made by the last handler
callsOf(call) == { k \in DOMAIN popovers.calls : popovers.calls[k].call = call }

\* the popover of an icon is open
popoverOpen(icon) == popovers.helper.showing /\ popovers.helper.hiddenCallback = icon

\* C27: setEditingStyle(true) is called only by a handler that shows a
\* popover, the handler that hides a popover calls setEditingStyle(false)
\* exactly once, for the icon whose popover it was, a click or showPopover
\* while the helper is showing only hides the popover with commit and opens
\* no editor, and so the pane is in editing style exactly while a popover is
\* open, each icon having an editor exactly while its own popover is open.
C27_EditingStyleWhilePopoverOpen ==
  LET calls == popovers.calls
      handler == popovers.handler
  IN  /\ popovers.isEditingStyle <=> popovers.helper.showing
      /\ \A icon \in Icons : popovers.editors[icon] <=> popoverOpen(icon)
      /\ \A k \in callsOf("setEditingStyle") :
           IF calls[k].flag
           THEN /\ ~handler.wasShowing
                /\ k > 1
                /\ calls[k - 1] = Call("show", calls[k].icon, "", TRUE)
                /\ popoverOpen(calls[k].icon)
           ELSE /\ handler.wasShowing
                /\ \E h \in callsOf("hide") : h < k /\ calls[h].icon = calls[k].icon
      /\ \A h \in callsOf("hide") :
           Cardinality({ k \in callsOf("setEditingStyle") : ~calls[k].flag }) = 1
      /\ Cardinality(callsOf("hide")) <= 1
      /\ (handler.wasShowing /\ handler.method \in {"_iconClick", "showPopover"}) =>
           /\ \E h \in callsOf("hide") : calls[h].flag
           /\ callsOf("new editor") = {}
           /\ callsOf("show") = {}
           /\ ~popovers.helper.showing

\* showPopover was called while a popover was showing, and only hid it
C27_Witness ==
  /\ popovers.handler.method = "showPopover"
  /\ popovers.handler.wasShowing
  /\ ~popovers.isEditingStyle
  /\ Call("setEditingStyle", "BezierPopoverIcon", "", FALSE)
       \in { popovers.calls[k] : k \in DOMAIN popovers.calls }

\* the text of the property when the popover was opened, or '' if it was null
capturedText ==
  IF popovers.textAtOpen = NullObject THEN "" ELSE popovers.textAtOpen.string

\* C28: the handler that hides a popover applies, as a major change, the
\* property text captured when the popover was opened (or '' if that was
\* null) when it hides without commit, and the rendered property text when it
\* hides with commit; afterwards the icon holds no captured text.
C28_HiddenAppliesCapturedOrRendered ==
  LET calls == popovers.calls
  IN  \A h \in callsOf("hide") :
        /\ h < Len(calls)
        /\ calls[h + 1] = Call("applyStyleText", calls[h].icon,
                               IF calls[h].flag THEN popovers.renderedPropertyText
                               ELSE capturedText,
                               TRUE)
        /\ callsOf("applyStyleText") = {h + 1}
        /\ popovers.originalPropertyText[calls[h].icon] = UndefinedObject

\* a popover opened on the text "a" was hidden without commit while "b" was
\* rendered, and "a" has been applied
C28_Witness ==
  /\ \E h \in callsOf("hide") : ~popovers.calls[h].flag
  /\ popovers.textAtOpen = String("a")
  /\ popovers.renderedPropertyText = "b"
  /\ popovers.property.propertyText = String("a")

----------------------------------------------------------------------------
(* The NodeConnectionsView of entrypoints/node_main/NodeConnectionsPanel.ts. *)
(* A rule is an object: the view's array and the list widget hold the same   *)
(* object, so an edit of its address shows in both.  view holds the objects  *)
(* (rules), the view's array and the list's items as arrays of object ids,   *)
(* the method requested last and the arguments of the callback calls that    *)
(* method made.                                                              *)

\* the addresses of a network discovery config
Addresses == { <<"a">>, <<"b">> }

\* the values of the editor's address input
EditorValues == { <<"a">>, <<" ", "b">>, <<"b", " ">> }

\* the identities of the rule objects
RuleIds == 1..MaxRules

RECURSIVE trimStart(_)
\* String.prototype.trim, the leading part
trimStart(s) ==
  IF s # <<>> /\ Head(s) = " " THEN trimStart(Tail(s)) ELSE s

RECURSIVE trimEnd(_)
\* String.prototype.trim, the trailing part
trimEnd(s) ==
  IF s # <<>> /\ s[Len(s)] = " " THEN trimEnd(SubSeq(s, 1, Len(s) - 1)) ELSE s

\* String.prototype.trim
trim(s) == trimEnd(trimStart(s))

\* variant: the element after the index is removed
splice_oneBased(array, index) ==
  IF index + 2 \in DOMAIN array
  THEN SubSeq(array, 1, index + 1) \o SubSeq(array, index + 3, Len(array))
  ELSE array

\* array.splice(index, 1), the index counted from 0
splice(array, index) ==
  IF index + 1 \in DOMAIN array
  THEN SubSeq(array, 1, index) \o SubSeq(array, index + 2, Len(array))
  ELSE array

\* ListWidget.removeItem(index)
removeItem(items, index) ==
  SubSeq(items, 1, index) \o SubSeq(items, index + 2, Len(items))

\* this._networkDiscoveryConfig.map(item => item.address)
addressesOf(config, objects) == [i \in DOMAIN config |-> objects[config[i]].address]

\* NodeConnectionsView._update: the callback is called with the addresses
update(config, objects) == <<addressesOf(config, objects)>>

\* an object that neither the view nor the list holds
newRule ==
  CHOOSE id \in RuleIds :
    view.rules[id] = NullObject /\ \A other \in 1..(id - 1) : view.rules[other] # NullObject

\* the objects still held once the view's array is config
heldBy(config) ==
  [id \in RuleIds |->
     IF \E i \in DOMAIN config : config[i] = id THEN view.rules[id] ELSE NullObject]

\* the view has been constructed
InitView ==
  /\ NoCall
  /\ lanes = NullObject
  /\ popovers = NullObject
  /\ view = [ rules |-> [id \in RuleIds |-> NullObject],
              networkDiscoveryConfig |-> <<>>,
              listItems |-> <<>>,
              requested |-> "constructor",
              callbackArgs |-> <<>> ]

\* NodeConnectionsView.discoveryConfigChanged: both arrays are emptied and
\* every address gets a new item, which is pushed to both
discoveryConfigChanged ==
  /\ \E config \in ArraysUpTo(Addresses, MaxRules) :
       view' = [ rules |-> [id \in RuleIds |->
                              IF id \in DOMAIN config
                              THEN [address |-> config[id]] ELSE NullObject],
                 networkDiscoveryConfig |-> [i \in DOMAIN config |-> i],
                 listItems |-> [i \in DOMAIN config |-> i],
                 requested |-> "discoveryConfigChanged",
                 callbackArgs |-> <<>> ]
  /\ UNCHANGED <<classifierVars, lanes, popovers>>

\* NodeConnectionsView.removeItemRequested(rule, index), called by the list
\* for one of its items
removeItemRequested ==
  /\ \E index \in 0..(Len(view.listItems) - 1) :
       LET config == splice(view.networkDiscoveryConfig, index)
       IN  view' = [ rules |-> heldBy(config),
                     networkDiscoveryConfig |-> config,
                     listItems |-> removeItem(view.listItems, index),
                     requested |-> "removeItemRequested",
                     callbackArgs |-> update(config, heldBy(config)) ]
  /\ UNCHANGED <<classifierVars, lanes, popovers>>

\* NodeConnectionsView.commitEdit(rule, editor, isNew), called by the list
\* for one of its items (isNew false) or for the item of addNewItem
commitEdit ==
  /\ \E value \in EditorValues, isNew \in BOOLEAN :
       IF isNew
       THEN /\ \E id \in RuleIds : view.rules[id] = NullObject
            /\ LET objects == [view.rules EXCEPT ![newRule] = [address |-> trim(value)]]
                   config == Append(view.networkDiscoveryConfig, newRule)
               IN  view' = [view EXCEPT !.rules = objects,
                                        !.networkDiscoveryConfig = config,
                                        !.requested = "commitEdit",
                                        !.callbackArgs = update(config, objects)]
       ELSE \E i \in DOMAIN view.listItems :
              LET objects == [view.rules EXCEPT
                                ![view.listItems[i]] = [address |-> trim(value)]]
              IN  view' = [view EXCEPT
                             !.rules = objects,
                             !.requested = "commitEdit",
                             !.callbackArgs = update(view.networkDiscoveryConfig, objects)]
  /\ UNCHANGED <<classifierVars, lanes, popovers>>

NextView ==
  \/ discoveryConfigChanged
  \/ removeItemRequested
  \/ commitEdit

SpecView == InitView /\ [][NextView]_vars

----------------------------------------------------------------------------
(* Properties of the NodeConnectionsView. *)

\* C29: the address list passed to the callback equals, in order, the
\* addresses of the items in _networkDiscoveryConfig; every displayed item is
\* the item of _networkDiscoveryConfig at the same index; commitEdit and
\* removeItemRequested call the callback once, discoveryConfigChanged never.
C29_CallbackGetsConfigAddresses ==
  LET config == view.networkDiscoveryConfig
  IN  /\ Len(view.listItems) <= Len(config)
      /\ \A i \in DOMAIN view.listItems : view.listItems[i] = config[i]
      /\ \A i \in DOMAIN config : view.rules[config[i]] # NullObject
      /\ view.requested \in {"commitEdit", "removeItemRequested"} =>
           /\ Len(view.callbackArgs) = 1
           /\ Len(view.callbackArgs[1]) = Len(config)
           /\ \A i \in DOMAIN config :
                view.callbackArgs[1][i] = view.rules[config[i]].address
      /\ view.requested = "discoveryConfigChanged" => view.callbackArgs = <<>>

\* the first of two displayed items was removed: the callback got the address
\* of the second
C29_Witness ==
  /\ view.requested = "removeItemRequested"
  /\ Len(view.listItems) = 1
  /\ view.listItems = view.networkDiscoveryConfig
  /\ view.listItems[1] = 2
  /\ view.callbackArgs = << << <<"b">> >> >>

----------------------------------------------------------------------------
(* CSSProperty.setText of core/sdk/CSSProperty.ts.  An invocation is held   *)
(* in pc, callee, args and result; result holds the promise returned and    *)
(* the calls made on the user metrics, the DOM model and the owner style.   *)

\* TextUtils.TextRange.TextRange, or null
TextRanges ==
  { NullObject, [startLine |-> 1, startColumn |-> 2, endLine |-> 1, endColumn |-> 8] }

\* CSSStyleDeclaration as far as setText reads it, or none
OwnerStyles ==
  {NullObject} \cup
  [ styleSheetId : {UndefinedObject, String(<<>>), String(<<"1">>)},
    range : TextRanges,
    cssText : { <<"c", ":", " ", "r", ";">> } ]

\* the properties setText is called on
CSSProperties ==
  [ ownerStyle : OwnerStyles,
    name : { <<"c">>, <<"-", "-", "x">> },
    value : { <<"r">> },
    important : BOOLEAN,
    text : { UndefinedObject, NullObject, String(<<"c", ":", " ", "r", ";">>) },
    range : TextRanges ]

\* an optional boolean argument
OptionalBooleans == { UndefinedObject, [boolean |-> TRUE], [boolean |-> FALSE] }

\* pending calls of setText
SetTextCalls ==
  [ property : CSSProperties,
    propertyText : { <<"c", ":", " ", "r", ";">>, <<"c", ":", " ", "b", ";">> },
    majorChange : BOOLEAN,
    overwrite : OptionalBooleans ]

\* get propertyText
propertyText(cssProperty) ==
  IF cssProperty.text # UndefinedObject
  THEN cssProperty.text
  ELSE IF cssProperty.name = <<>>
  THEN String(<<>>)
  ELSE String(cssProperty.name \o <<":", " ">> \o cssProperty.value
                \o (IF cssProperty.important
                    THEN <<" ", "!", "i", "m", "p", "o", "r", "t", "a", "n", "t">>
                    ELSE <<>>)
                \o <<";">>)

\* whether an optional string is truthy
truthyString(s) == s # UndefinedObject /\ s # NullObject /\ s.string # <<>>

\* a call with its argument
called_(call, arg) == [call |-> call, arg |-> arg]

\* HostModule.userMetrics.actionTaken calls of a major change
actionsTaken(cssProperty, majorChange) ==
  IF majorChange
  THEN <<called_("actionTaken", "StyleRuleEdited")>>
         \o (IF startsWith(cssProperty.name, <<"-", "-">>)
             THEN <<called_("actionTaken", "CustomPropertyEdited")>> ELSE <<>>)
  ELSE <<>>

\* the part of setText after the three tests
editText(cssProperty, text, majorChange, overwrite) ==
  IF overwrite # UndefinedObject /\ overwrite.boolean /\ String(text) = propertyText(cssProperty)
  THEN [ promise |-> [resolved |-> TRUE],
         calls |-> actionsTaken(cssProperty, majorChange)
                     \o <<called_("markUndoableState", ~majorChange)>> ]
  ELSE [ promise |-> [returnedBy |-> "ownerStyle.setText"],
         calls |-> actionsTaken(cssProperty, majorChange)
                     \o <<called_("ownerStyle.setText",
                                  [ styleText |-> [ cssText |-> cssProperty.ownerStyle.cssText,
                                                    range |-> cssProperty.range,
                                                    inserted |-> <<";">> \o text \o <<";">> ],
                                    majorChange |-> majorChange ])>> ]

\* variant: the user metrics are recorded before the tests
setText_metricsFirst(cssProperty, text, majorChange, overwrite) ==
  IF cssProperty.ownerStyle = NullObject
  THEN [ promise |-> [rejected |-> "No ownerStyle for property"],
         calls |-> actionsTaken(cssProperty, majorChange) ]
  ELSE IF ~truthyString(cssProperty.ownerStyle.styleSheetId)
  THEN [ promise |-> [rejected |-> "No owner style id"],
         calls |-> actionsTaken(cssProperty, majorChange) ]
  ELSE IF cssProperty.range = NullObject \/ cssProperty.ownerStyle.range = NullObject
  THEN [ promise |-> [rejected |-> "Style not editable"],
         calls |-> actionsTaken(cssProperty, majorChange) ]
  ELSE editText(cssProperty, text, majorChange, overwrite)

\* CSSProperty.setText(propertyText, majorChange, overwrite)
setText(cssProperty, text, majorChange, overwrite) ==
  IF cssProperty.ownerStyle = NullObject
  THEN [ promise |-> [rejected |-> "No ownerStyle for property"], calls |-> <<>> ]
  ELSE IF ~truthyString(cssProperty.ownerStyle.styleSheetId)
  THEN [ promise |-> [rejected |-> "No owner style id"], calls |-> <<>> ]
  ELSE IF cssProperty.range = NullObject \/ cssProperty.ownerStyle.range = NullObject
  THEN [ promise |-> [rejected |-> "Style not editable"], calls |-> <<>> ]
  ELSE editText(cssProperty, text, majorChange, overwrite)

\* a caller has invoked setText on a property
InitSetText ==
  /\ pc = "call"
  /\ callee = "setText"
  /\ args \in SetTextCalls
  /\ result = <<>>
  /\ console = <<>>
  /\ lanes = NullObject
  /\ popovers = NullObject
  /\ view = NullObject

\* CSSProperty.setText runs and returns its promise
SetText ==
  /\ pc = "call"
  /\ callee = "setText"
  /\ result' = setText(args.property, args.propertyText, args.majorChange, args.overwrite)
  /\ pc' = "return"
  /\ UNCHANGED <<callee, args, console, lanes, popovers, view>>

NextSetText == SetText

SpecSetText == InitSetText /\ [][NextSetText]_vars

----------------------------------------------------------------------------
(* Properties of CSSProperty.setText. *)

setTextReturned == pc = "return" /\ callee = "setText"

\* C30: setText on a property of an owner style without styleSheetId rejects
\* with 'No owner style id'; with a styleSheetId but without the property's
\* range or the owner style's range it rejects with 'Style not editable';
\* whenever it rejects, it has recorded no user metric, marked no undoable
\* state and not called ownerStyle.setText, whatever majorChange and
\* overwrite are.
C30_SetTextRejectsWithoutEffect ==
  setTextReturned =>
    LET cssProperty == args.property
        ownerStyle == cssProperty.ownerStyle
        editable == /\ ownerStyle # NullObject
                    /\ truthyString(ownerStyle.styleSheetId)
                    /\ cssProperty.range # NullObject
                    /\ ownerStyle.range # NullObject
    IN  /\ (ownerStyle # NullObject /\ ~truthyString(ownerStyle.styleSheetId)) =>
             result.promise = [rejected |-> "No owner style id"]
        /\ ( /\ ownerStyle # NullObject
             /\ truthyString(ownerStyle.styleSheetId)
             /\ (cssProperty.range = NullObject \/ ownerStyle.range = NullObject) ) =>
             result.promise = [rejected |-> "Style not editable"]
        /\ ~editable =>
             /\ "rejected" \in DOMAIN result.promise
             /\ result.calls = <<>>

\* a major, overwriting change of a custom property without range is rejected
C30_Witness ==
  /\ setTextReturned
  /\ args.majorChange
  /\ args.overwrite = [boolean |-> TRUE]
  /\ args.property.name = <<"-", "-", "x">>
  /\ args.property.range = NullObject
  /\ result = [ promise |-> [rejected |-> "Style not editable"], calls |-> <<>> ]

====
